---- MODULE Spec2Model ----
(***************************************************************************)
(* Model of gre2g: the file-system blob database (FileSystemDB with its    *)
(* per-level mapping tables) and the key frame detectors with a minimal    *)
(* key frame distance (KeyFrameDetFramesRatio, KeyFrameDetPixelsDist).     *)
(***************************************************************************)
EXTENDS Integers, Sequences, FiniteSets, TLC

(***************************************************************************)
(* Bounds of the model.                                                    *)
(***************************************************************************)
\* number of store operations called in one behaviour
MaxOps == 3
\* number of frames fed to a detector in one behaviour
MaxFrames == 6
\* largest min_kf_distance a detector is constructed with
MaxMinKfDistance == 3
\* frames of a stream a reset detector is compared on
MaxStream == 3

(***************************************************************************)
(* Program constants.                                                      *)
(***************************************************************************)
MAPPING_TABLE == "mapping_table"
HASH_LENGTH == 32
PDDFFSFormat == {".parquet", ".csv"}

(***************************************************************************)
(* Inputs.  Item names: a short name with an extension, which is also the  *)
(* name of the csv mapping-table file, and two names whose base names are  *)
(* longer than HASH_LENGTH and agree on their first HASH_LENGTH            *)
(* characters.  Level paths: the root, every one-level path and one        *)
(* two-level path; item paths: the level paths and every level path        *)
(* extended by one name.                                                   *)
(***************************************************************************)
ShortName == "mapping_table.csv"
LongNameA == "game_session_recording_2021_part_A.mp4"
LongNameB == "game_session_recording_2021_part_B.mp4"
Names == {ShortName, LongNameA, LongNameB}
FileBytes == {"d1", "d2"}

LevelPaths ==
    {<<>>} \cup {<<n>> : n \in Names} \cup {<<LongNameA, LongNameB>>}
ItemPaths == LevelPaths \cup {Append(p, n) : p \in LevelPaths, n \in Names}

(***************************************************************************)
(* Strings.                                                                *)
(***************************************************************************)
CharAt(s, i) == SubSeq(s, i, i)

MaxOf(S) == CHOOSE x \in S : \A y \in S : y <= x

\* os.path.splitext: the extension starts at the last dot, unless only dots
\* (or nothing) come before that dot.
splitext(s) ==
    LET dots == {i \in 1..Len(s) : CharAt(s, i) = "."}
    IN  IF dots = {} THEN <<s, "">>
        ELSE LET d == MaxOf(dots)
             IN  IF \E j \in 1..(d - 1) : CharAt(s, j) # "."
                 THEN <<SubSeq(s, 1, d - 1), SubSeq(s, d, Len(s))>>
                 ELSE <<s, "">>

\* hashlib.md5(base_item_name.encode("UTF-8")).hexdigest() on the base names
\* of Names.
md5_hexdigest(base) ==
    CASE base = "mapping_table" -> "770f67f0f617d4571ad0eeba479e5dae"
      [] base = "game_session_recording_2021_part_A" -> "e739ccdd6a01c594dea05dc551319125"
      [] base = "game_session_recording_2021_part_B" -> "ca488b3f7ac9613256189ca62066b765"

(***************************************************************************)
(* The file system under database_path.  A file-system path is the         *)
(* sequence of entry names below database_path; <<>> is database_path.     *)
(* fs maps every existing path to its entry: a directory, a file holding   *)
(* a saved DataFrame, or a file holding raw bytes.                         *)
(***************************************************************************)
Dir == [kind |-> "dir", rows |-> <<>>, data |-> ""]
TableFile(rows) == [kind |-> "table", rows |-> rows, data |-> ""]
BytesFile(data) == [kind |-> "bytes", rows |-> <<>>, data |-> data]

NoFs == [q \in {} |-> Dir]

Parent(p) == SubSeq(p, 1, Len(p) - 1)
Last(p) == p[Len(p)]
IsPrefix(p, q) == Len(p) <= Len(q) /\ SubSeq(q, 1, Len(p)) = p

path_exists(fs, p) == p \in DOMAIN fs
path_isfile(fs, p) == p \in DOMAIN fs /\ fs[p].kind # "dir"

WithEntry(fs, p, e) == [q \in DOMAIN fs \cup {p} |-> IF q = p THEN e ELSE fs[q]]
Without(fs, gone) == [q \in DOMAIN fs \ gone |-> fs[q]]

\* shutil.rmtree
rmtree(fs, p) == Without(fs, {q \in DOMAIN fs : IsPrefix(p, q)})

\* os.remove
os_remove(fs, p) == Without(fs, {p})

\* a file can be opened for writing at p: its folder exists and p is no folder
Writable(fs, p) ==
    /\ p # <<>>
    /\ Parent(p) \in DOMAIN fs
    /\ fs[Parent(p)].kind = "dir"
    /\ (p \in DOMAIN fs => fs[p].kind # "dir")

\* os.mkdir; the folder database_path lies in exists
os_mkdir(fs, p) ==
    IF p \in DOMAIN fs THEN [res |-> "OSError", fs |-> fs]
    ELSE IF p # <<>> /\ ~(Parent(p) \in DOMAIN fs /\ fs[Parent(p)].kind = "dir")
    THEN [res |-> "OSError", fs |-> fs]
    ELSE [res |-> "ok", fs |-> WithEntry(fs, p, Dir)]

(***************************************************************************)
(* tools/param_validators.py.  A validator returns "ok" or the exception   *)
(* it raises.                                                              *)
(***************************************************************************)
check_file_existence(fs, p) ==
    IF ~path_exists(fs, p) THEN "OSError"
    ELSE IF ~path_isfile(fs, p) THEN "OSError"
    ELSE "ok"

check_folder_existence(fs, p) ==
    IF ~path_exists(fs, p) THEN "OSError"
    ELSE IF path_isfile(fs, p) THEN "OSError"
    ELSE "ok"

\* the validator PandasDFIOHandler calls; param_validators.py has it under
\* the name check_file_existence
file_existence_check(fs, p) == check_file_existence(fs, p)

(***************************************************************************)
(* tools/io_handlers/fs_handler.py (FileSystemIOHandler).                  *)
(***************************************************************************)
force_create_folder_keeps_content(fs, p) ==
    IF path_exists(fs, p)
    THEN [res |-> check_folder_existence(fs, p), fs |-> fs]
    ELSE os_mkdir(fs, p)

force_create_folder(fs, p) ==
    IF path_exists(fs, p)
    THEN IF check_folder_existence(fs, p) # "ok"
         THEN [res |-> "OSError", fs |-> fs]
         ELSE os_mkdir(rmtree(fs, p), p)
    ELSE os_mkdir(fs, p)

create_folder(fs, p) ==
    IF path_exists(fs, p)
    THEN [res |-> check_folder_existence(fs, p), fs |-> fs]
    ELSE os_mkdir(fs, p)

FSIO_delete_file(fs, p) ==
    IF check_file_existence(fs, p) # "ok" THEN [res |-> "OSError", fs |-> fs]
    ELSE [res |-> "ok", fs |-> os_remove(fs, p)]

FSIO_delete_folder_unchecked(fs, p) ==
    IF ~path_exists(fs, p) THEN [res |-> "OSError", fs |-> fs]
    ELSE [res |-> "ok", fs |-> rmtree(fs, p)]

FSIO_delete_folder(fs, p) ==
    IF check_folder_existence(fs, p) # "ok" THEN [res |-> "OSError", fs |-> fs]
    ELSE [res |-> "ok", fs |-> rmtree(fs, p)]

\* the bytes read are the entry of the file
FSIO_get_file(fs, p) ==
    IF check_file_existence(fs, p) # "ok" THEN [res |-> "OSError", val |-> Dir]
    ELSE [res |-> "ok", val |-> fs[p]]

(***************************************************************************)
(* tools/io_handlers/pandas_df_handler.py (PandasDFIOHandler).             *)
(***************************************************************************)
\* df_path = df_base_path + df_format.value
DfPath(df_base_path, fmt) ==
    [df_base_path EXCEPT ![Len(df_base_path)] = @ \o fmt]

df_fs_force_save(fs, df_base_path, fmt, rows) ==
    LET save(df_path) ==
            IF path_exists(fs, df_path) /\ file_existence_check(fs, df_path) # "ok"
            THEN [res |-> "OSError", fs |-> fs]
            ELSE LET write(removed) ==
                         IF Writable(removed, df_path)
                         THEN [res |-> "ok", fs |-> WithEntry(removed, df_path, TableFile(rows))]
                         ELSE [res |-> "OSError", fs |-> removed]
                 IN  write(IF path_exists(fs, df_path) THEN os_remove(fs, df_path) ELSE fs)
    IN  save(DfPath(df_base_path, fmt))

df_fs_force_save_empty(fs, df_base_path, fmt) ==
    df_fs_force_save(fs, df_base_path, fmt, <<>>)

\* a file that holds no saved DataFrame does not load: the reader raises an
\* exception that is no OSError
load_df(fs, df_base_path, fmt) ==
    LET load(df_path) ==
            IF file_existence_check(fs, df_path) # "ok" THEN [res |-> "OSError", rows |-> <<>>]
            ELSE IF fs[df_path].kind # "table" THEN [res |-> "Crash", rows |-> <<>>]
            ELSE [res |-> "ok", rows |-> fs[df_path].rows]
    IN  load(DfPath(df_base_path, fmt))

(***************************************************************************)
(* tools/databases/blob_database/file_system_db.py (FileSystemDB).         *)
(* A user path is a sequence of item names.  An operation returns res:     *)
(* "ok", "OSError" (the exception the store raises for a missing path or a *)
(* name that already exists) or "Crash" (any other exception), with the    *)
(* file system it leaves behind.  _get_fs_path returns "Null" for the      *)
(* NullFSPath object.  A value the code binds to a local variable is the   *)
(* parameter of a local operator named after what the code does with it.   *)
(***************************************************************************)
\* path.join(self.database_path, *fs_path_list)
_get_absolute_fs_path_str(fs_path_list) == fs_path_list

_get_mapping_table_abs_path(level_fs_path) ==
    _get_absolute_fs_path_str(Append(level_fs_path, MAPPING_TABLE))

RowsNamed(rows, name) == SelectSeq(rows, LAMBDA r : r.name = name)
RowsNotNamed(rows, name) == SelectSeq(rows, LAMBDA r : r.name # name)

RECURSIVE _get_fs_path_loop(_, _, _, _, _)
RECURSIVE _get_fs_path(_, _, _)
RECURSIVE _load_level_mapping_table(_, _, _)

\* the loop of _get_fs_path, about to look at level_path[i]
_get_fs_path_loop(fs, fmt, level_path, i, fs_path) ==
    LET look_up(level_mapping_df) ==
            IF level_mapping_df.res # "ok"
            THEN [res |-> level_mapping_df.res, path |-> <<>>]
            ELSE LET next(level_mapping) ==
                         IF level_mapping # <<>>
                         THEN _get_fs_path_loop(fs, fmt, level_path, i + 1,
                                                Append(fs_path, level_mapping[1].fs_id))
                         ELSE [res |-> "Null", path |-> <<>>]
                 IN  next(RowsNamed(level_mapping_df.rows, level_path[i]))
    IN  IF i > Len(level_path) THEN [res |-> "ok", path |-> fs_path]
        ELSE look_up(_load_level_mapping_table(fs, fmt, SubSeq(level_path, 1, i - 1)))

_get_fs_path(fs, fmt, level_path) == _get_fs_path_loop(fs, fmt, level_path, 1, <<>>)

_load_level_mapping_table(fs, fmt, level_path) ==
    LET load(fs_level_path) ==
            IF fs_level_path.res = "Null" THEN [res |-> "OSError", rows |-> <<>>]
            ELSE IF fs_level_path.res # "ok" THEN [res |-> fs_level_path.res, rows |-> <<>>]
            ELSE load_df(fs, _get_mapping_table_abs_path(fs_level_path.path), fmt)
    IN  load(_get_fs_path(fs, fmt, level_path))

\* returns the level path itself (not its fs ids) when the path resolves
_level_path_to_abs_fs_path_str(fs, fmt, level_path) ==
    LET join(fs_path) ==
            IF fs_path.res = "ok"
            THEN [res |-> "ok", path |-> _get_absolute_fs_path_str(level_path)]
            ELSE fs_path
    IN  join(_get_fs_path(fs, fmt, level_path))

_force_create_mapping_table(fs, fmt, new_level_path) ==
    LET create(fs_new_level_path) ==
            IF fs_new_level_path.res = "Null" THEN [res |-> "OSError", fs |-> fs]
            ELSE IF fs_new_level_path.res # "ok" THEN [res |-> fs_new_level_path.res, fs |-> fs]
            ELSE df_fs_force_save_empty(
                     fs, Append(_get_absolute_fs_path_str(fs_new_level_path.path), MAPPING_TABLE), fmt)
    IN  create(_get_fs_path(fs, fmt, new_level_path))

_update_level_mapping_table(fs, fmt, level_path, mapping_table) ==
    LET update(level_fs_path) ==
            IF level_fs_path.res = "Null" THEN [res |-> "OSError", fs |-> fs]
            ELSE IF level_fs_path.res # "ok" THEN [res |-> level_fs_path.res, fs |-> fs]
            ELSE df_fs_force_save(fs, _get_mapping_table_abs_path(level_fs_path.path), fmt, mapping_table)
    IN  update(_get_fs_path(fs, fmt, level_path))

item_fs_id_untruncated(item_name, use_hash) ==
    LET base_item_name == splitext(item_name)[1]
        ext == splitext(item_name)[2]
    IN  IF use_hash THEN md5_hexdigest(base_item_name) \o ext
        ELSE base_item_name \o ext

\* the file-system id of an item
item_fs_id(item_name, use_hash) ==
    LET base_item_name == splitext(item_name)[1]
        ext == splitext(item_name)[2]
    IN  IF use_hash THEN md5_hexdigest(base_item_name) \o ext
        ELSE IF Len(item_name) - Len(ext) > HASH_LENGTH
             THEN SubSeq(item_name, 1, HASH_LENGTH) \o ext
             ELSE base_item_name \o ext

item_already_exists_unchecked(rows, item_name) == FALSE

\* the item is looked for among the names of the table
item_already_exists(rows, item_name) == RowsNamed(rows, item_name) # <<>>

_add_item_into_mapping_table(fs, fmt, level_path, item_name, use_hash) ==
    LET register(mapping_table) ==
            IF mapping_table.res # "ok" THEN [res |-> mapping_table.res, fs |-> fs, id |-> ""]
            ELSE IF item_already_exists(mapping_table.rows, item_name)
            THEN [res |-> "OSError", fs |-> fs, id |-> ""]
            ELSE LET return(id, saved) == [res |-> saved.res, fs |-> saved.fs, id |-> id]
                     save(id) ==
                         return(id, _update_level_mapping_table(
                                        fs, fmt, level_path,
                                        Append(mapping_table.rows,
                                               [name |-> item_name, fs_id |-> id])))
                 IN  save(item_fs_id(item_name, use_hash))
    IN  register(_load_level_mapping_table(fs, fmt, level_path))

initialize(fs, fmt) ==
    LET create_table(folder) ==
            IF folder.res # "ok" THEN folder
            ELSE _force_create_mapping_table(folder.fs, fmt, <<>>)
    IN  create_table(force_create_folder(fs, <<>>))

get_level_content(fs, fmt, level_path) ==
    LET names(mapping_table) ==
            IF mapping_table.res # "ok" THEN [res |-> mapping_table.res, val |-> <<>>]
            ELSE [res |-> "ok",
                  val |-> [i \in 1..Len(mapping_table.rows) |-> mapping_table.rows[i].name]]
    IN  names(_load_level_mapping_table(fs, fmt, level_path))

\* the rest of a round of force_add_level once the name is registered
create_level(added, fmt, level_path) ==
    LET create_table(folder) ==
            IF folder.res # "ok" THEN folder
            ELSE _force_create_mapping_table(folder.fs, fmt, level_path)
        create(level_fs_path) ==
            IF level_fs_path.res = "Null" THEN [res |-> "Crash", fs |-> added.fs]
            ELSE IF level_fs_path.res # "ok"
            THEN [res |-> level_fs_path.res, fs |-> added.fs]
            ELSE create_table(create_folder(
                     added.fs, _get_absolute_fs_path_str(level_fs_path.path)))
    IN  IF added.res # "ok" THEN [res |-> added.res, fs |-> added.fs]
        ELSE create(_get_fs_path(added.fs, fmt, level_path))

force_add_level_step_unguarded(fs, fmt, level_path, use_hash) ==
    create_level(_add_item_into_mapping_table(
                     fs, fmt, Parent(level_path), Last(level_path), use_hash),
                 fmt, level_path)

\* one round of the loop of force_add_level, for the prefix level_path
force_add_level_step(fs, fmt, level_path, use_hash) ==
    LET add(real_path) ==
            IF real_path.res = "ok" THEN [res |-> "ok", fs |-> fs]
            ELSE IF real_path.res # "Null" THEN [res |-> real_path.res, fs |-> fs]
            ELSE create_level(_add_item_into_mapping_table(
                                  fs, fmt, Parent(level_path), Last(level_path), use_hash),
                              fmt, level_path)
    IN  add(_level_path_to_abs_fs_path_str(fs, fmt, level_path))

RECURSIVE force_add_level_loop(_, _, _, _, _)
force_add_level_loop(fs, fmt, new_level_path, use_hash, n) ==
    LET next(step) ==
            IF step.res # "ok" THEN step
            ELSE force_add_level_loop(step.fs, fmt, new_level_path, use_hash, n + 1)
    IN  IF n > Len(new_level_path) THEN [res |-> "ok", fs |-> fs]
        ELSE next(force_add_level_step(fs, fmt, SubSeq(new_level_path, 1, n), use_hash))

force_add_level(fs, fmt, new_level_path, use_hash) ==
    force_add_level_loop(fs, fmt, new_level_path, use_hash, 1)

delete_level_keeps_row(fs, fmt, level_path) ==
    LET drop(level_fs_abs_path, parent_level_mapping_df) ==
            IF parent_level_mapping_df.res # "ok"
            THEN [res |-> parent_level_mapping_df.res, fs |-> fs]
            ELSE FSIO_delete_folder(fs, level_fs_abs_path)
        delete(level_fs_path) ==
            IF level_fs_path.res = "Null" THEN [res |-> "OSError", fs |-> fs]
            ELSE IF level_fs_path.res # "ok" THEN [res |-> level_fs_path.res, fs |-> fs]
            ELSE drop(_get_absolute_fs_path_str(level_fs_path.path),
                      _load_level_mapping_table(fs, fmt, Parent(level_path)))
    IN  IF level_path = <<>> THEN [res |-> "ok", fs |-> fs]
        ELSE delete(_get_fs_path(fs, fmt, level_path))

delete_level(fs, fmt, level_path) ==
    LET update(parent_level_mapping_df, deleted) ==
            IF deleted.res # "ok" THEN deleted
            ELSE _update_level_mapping_table(
                     deleted.fs, fmt, Parent(level_path),
                     RowsNotNamed(parent_level_mapping_df.rows, Last(level_path)))
        drop(level_fs_abs_path, parent_level_mapping_df) ==
            IF parent_level_mapping_df.res # "ok"
            THEN [res |-> parent_level_mapping_df.res, fs |-> fs]
            ELSE update(parent_level_mapping_df, FSIO_delete_folder(fs, level_fs_abs_path))
        delete(level_fs_path) ==
            IF level_fs_path.res = "Null" THEN [res |-> "OSError", fs |-> fs]
            ELSE IF level_fs_path.res # "ok" THEN [res |-> level_fs_path.res, fs |-> fs]
            ELSE drop(_get_absolute_fs_path_str(level_fs_path.path),
                      _load_level_mapping_table(fs, fmt, Parent(level_path)))
    IN  IF level_path = <<>> THEN [res |-> "ok", fs |-> fs]
        ELSE delete(_get_fs_path(fs, fmt, level_path))

\* file_path[-1] of an empty file_path raises an IndexError
delete_file(fs, fmt, file_path) ==
    LET update(level_mapping_df, deleted) ==
            IF deleted.res # "ok" THEN deleted
            ELSE _update_level_mapping_table(
                     deleted.fs, fmt, Parent(file_path),
                     RowsNotNamed(level_mapping_df.rows, Last(file_path)))
        drop(file_fs_abs_path, level_mapping_df) ==
            IF level_mapping_df.res # "ok" THEN [res |-> level_mapping_df.res, fs |-> fs]
            ELSE IF file_path = <<>> THEN [res |-> "Crash", fs |-> fs]
            ELSE update(level_mapping_df, FSIO_delete_file(fs, file_fs_abs_path))
        delete(file_fs_path) ==
            IF file_fs_path.res = "Null" THEN [res |-> "OSError", fs |-> fs]
            ELSE IF file_fs_path.res # "ok" THEN [res |-> file_fs_path.res, fs |-> fs]
            ELSE drop(_get_absolute_fs_path_str(file_fs_path.path),
                      _load_level_mapping_table(fs, fmt, Parent(file_path)))
    IN  delete(_get_fs_path(fs, fmt, file_path))

\* open(file_abs_fs_path, "wb") and write
write_file(fs, file_abs_fs_path, file) ==
    IF Writable(fs, file_abs_fs_path)
    THEN [res |-> "ok", fs |-> WithEntry(fs, file_abs_fs_path, BytesFile(file))]
    ELSE [res |-> "OSError", fs |-> fs]

add_file(fs, fmt, level_path, file, file_name_with_ext, use_hash) ==
    LET write(fs_path, added) ==
            IF added.res # "ok" THEN [res |-> added.res, fs |-> added.fs]
            ELSE write_file(added.fs,
                            _get_absolute_fs_path_str(Append(fs_path.path, added.id)), file)
        add(fs_path) ==
            IF fs_path.res = "Null" THEN [res |-> "OSError", fs |-> fs]
            ELSE IF fs_path.res # "ok" THEN [res |-> fs_path.res, fs |-> fs]
            ELSE write(fs_path, _add_item_into_mapping_table(
                                    fs, fmt, level_path, file_name_with_ext, use_hash))
    IN  add(_get_fs_path(fs, fmt, level_path))

get_file(fs, fmt, file_path) ==
    LET read(file_fs_path) ==
            IF file_fs_path.res = "Null" THEN [res |-> "OSError", val |-> Dir]
            ELSE IF file_fs_path.res # "ok" THEN [res |-> file_fs_path.res, val |-> Dir]
            ELSE FSIO_get_file(fs, _get_absolute_fs_path_str(file_fs_path.path))
    IN  read(_get_fs_path(fs, fmt, file_path))

(***************************************************************************)
(* algs/key_frame_det: KeyFrameDetFramesRatio and KeyFrameDetPixelsDist.   *)
(* A frame is a uniform grey BGR image, given by its intensity; resizing   *)
(* it gives the same uniform image.  A threshold is given in thousandths.  *)
(* A detector is a record of the fields of the object.                     *)
(***************************************************************************)
Intensities == {0, 100, 255}
RatioThresholds == {1, 499, 999}
\* the kernels are held exactly for these values of max_temporal_lag
Lags == {1, 2}
ThresholdDen == 1000
AggregationMethod == {"mean", "decaying"}
\* kernel weights are held in hundredths
KernelDen == 100

\* PixelsDist: with L = log(1 / MATH_EPS), the divergence of a uniform frame
\* is k * L (up to terms of the size of MATH_EPS) for the number k of
\* channels whose occupied bin held no mass before.  A threshold is given in
\* halves of L: 0 stands for the thresholds below L, 3 for those between L
\* and 3 L, 7 for those above 3 L.
DistThresholds == {0, 3, 7}

_get_aggregation_kernel_growing(max_temporal_lag, aggregation_type) ==
    IF aggregation_type = "decaying"
    THEN [i \in 1..max_temporal_lag |-> IF i = 1 THEN 10 ELSE 9]
    ELSE [i \in 1..max_temporal_lag |-> KernelDen \div max_temporal_lag]

\* _get_aggregation_kernel: the weights, in hundredths
_get_aggregation_kernel(max_temporal_lag, aggregation_type) ==
    IF aggregation_type = "decaying"
    THEN [i \in 1..max_temporal_lag |->
             IF max_temporal_lag - i = 0 THEN 10 ELSE 9]
    ELSE [i \in 1..max_temporal_lag |-> KernelDen \div max_temporal_lag]

RECURSIVE WeightedSum(_, _, _)
WeightedSum(frames, kernel, i) ==
    IF i > Len(frames) THEN 0
    ELSE frames[i] * kernel[i] + WeightedSum(frames, kernel, i + 1)

Min2(a, b) == IF a < b THEN a ELSE b
Max2(a, b) == IF a < b THEN b ELSE a

\* FramesRatio: frames_diff_ratio > kf_threshold, with
\* frames_diff_ratio = 1 - mean(frames_min / (frames_max + MATH_EPS)) and
\* MATH_EPS a positive constant far below every threshold step: where both
\* frames are 0 the ratio is 0 / MATH_EPS = 0 (black_ratio_MATH_EPS, in
\* thousandths).  miscellaneous/constants.py does not set MATH_EPS.
black_ratio_MATH_EPS == 0

ratio_is_key_frame_equal_black(d, new_frame) ==
    LET prev_frames_agg == WeightedSum(d.prev_frames, d.aggregation_kernel, 1)
        frame_resized == new_frame * KernelDen
        frames_min == Min2(frame_resized, prev_frames_agg)
        frames_max == Max2(frame_resized, prev_frames_agg)
    IN  IF frames_max = 0
        THEN FALSE
        ELSE (frames_max - frames_min) * ThresholdDen > d.kf_threshold * frames_max

ratio_is_key_frame_by_ratio(d, new_frame) ==
    LET prev_frames_agg == WeightedSum(d.prev_frames, d.aggregation_kernel, 1)
        frame_resized == new_frame * KernelDen
        frames_min == Min2(frame_resized, prev_frames_agg)
        frames_max == Max2(frame_resized, prev_frames_agg)
    IN  IF frames_max = 0
        THEN black_ratio_MATH_EPS > d.kf_threshold
        ELSE frames_min * ThresholdDen > d.kf_threshold * frames_max

ratio_is_key_frame(d, new_frame) ==
    LET prev_frames_agg == WeightedSum(d.prev_frames, d.aggregation_kernel, 1)
        frame_resized == new_frame * KernelDen
        frames_min == Min2(frame_resized, prev_frames_agg)
        frames_max == Max2(frame_resized, prev_frames_agg)
    IN  IF frames_max = 0
        THEN ThresholdDen - black_ratio_MATH_EPS > d.kf_threshold
        ELSE (frames_max - frames_min) * ThresholdDen > d.kf_threshold * frames_max

\* the HSV histograms of a uniform grey frame: all mass in one bin per channel
frame_hist(new_frame) == <<0, 0, new_frame>>
NoDistribution == <<-1, -1, -1>>

\* PixelsDist: kl_div_agg > kf_threshold
dist_is_key_frame(d, new_frame) ==
    LET hist == frame_hist(new_frame)
        k == Cardinality({c \in 1..3 : d.prev_distribution[c] # hist[c]})
    IN  2 * k > d.kf_threshold

initial_kf_dist_zero(min_kf_distance) == 0

\* self.kf_dist = self.min_kf_distance  # to be able to detect very first frame
initial_kf_dist(min_kf_distance) == min_kf_distance

ratio_reset(d) ==
    [d EXCEPT !.frame_ind = -1,
              !.kf_dist = initial_kf_dist(d.min_kf_distance),
              !.prev_frames = [i \in 1..d.max_temporal_lag |-> 0]]

dist_reset_keeps_distribution(d) ==
    [d EXCEPT !.frame_ind = -1,
              !.kf_dist = initial_kf_dist(d.min_kf_distance)]

dist_reset(d) ==
    [d EXCEPT !.prev_distribution = NoDistribution,
              !.frame_ind = -1,
              !.kf_dist = initial_kf_dist(d.min_kf_distance)]

\* KeyFrameDetFramesRatio.__init__ with valid parameters
KeyFrameDetFramesRatio(threshold, max_temporal_lag, min_kf_distance, lag_frames_aggregation) ==
    ratio_reset([alg |-> "FramesRatio",
                 kf_threshold |-> threshold,
                 max_temporal_lag |-> max_temporal_lag,
                 min_kf_distance |-> min_kf_distance,
                 aggregation_kernel |-> _get_aggregation_kernel(max_temporal_lag, lag_frames_aggregation),
                 frame_ind |-> -1,
                 kf_dist |-> 0,
                 prev_frames |-> <<>>,
                 prev_distribution |-> NoDistribution])

\* KeyFrameDetPixelsDist.__init__ with valid parameters
KeyFrameDetPixelsDist(threshold, min_kf_distance) ==
    [alg |-> "PixelsDist",
     kf_threshold |-> threshold,
     max_temporal_lag |-> 0,
     min_kf_distance |-> min_kf_distance,
     aggregation_kernel |-> <<>>,
     frame_ind |-> -1,
     kf_dist |-> initial_kf_dist(min_kf_distance),
     prev_frames |-> <<>>,
     prev_distribution |-> NoDistribution]

short_circuited_one_late(kf_dist, min_kf_distance) == kf_dist < min_kf_distance + 1

short_circuited_one_early(kf_dist, min_kf_distance) == kf_dist < min_kf_distance - 1

\* the hysteresis check of __call__, on the incremented counter
short_circuited(kf_dist, min_kf_distance) == kf_dist < min_kf_distance

ratio_call_never_resets(d, new_frame) ==
    LET counted == [d EXCEPT !.frame_ind = @ + 1, !.kf_dist = @ + 1]
    IN  IF short_circuited(counted.kf_dist, counted.min_kf_distance)
        THEN [d |-> counted, ret |-> FALSE, evaluated |-> FALSE]
        ELSE LET is_key_frame == ratio_is_key_frame(counted, new_frame)
                 n == counted.max_temporal_lag
             IN  [d |-> [counted EXCEPT
                             !.prev_frames = [i \in 1..n |->
                                 IF i < n THEN counted.prev_frames[i + 1] ELSE new_frame]],
                  ret |-> is_key_frame, evaluated |-> TRUE]

ratio_call_keeps_older(d, new_frame) ==
    LET counted == [d EXCEPT !.frame_ind = @ + 1, !.kf_dist = @ + 1]
    IN  IF short_circuited(counted.kf_dist, counted.min_kf_distance)
        THEN [d |-> counted, ret |-> FALSE, evaluated |-> FALSE]
        ELSE LET is_key_frame == ratio_is_key_frame(counted, new_frame)
                 n == counted.max_temporal_lag
             IN  [d |-> [counted EXCEPT
                             !.kf_dist = IF is_key_frame THEN 0 ELSE @,
                             !.prev_frames[n] = new_frame],
                  ret |-> is_key_frame, evaluated |-> TRUE]

\* KeyFrameDetFramesRatio.__call__: the detector after the call and the
\* value returned
ratio_call(d, new_frame) ==
    LET counted == [d EXCEPT !.frame_ind = @ + 1, !.kf_dist = @ + 1]
    IN  IF short_circuited(counted.kf_dist, counted.min_kf_distance)
        THEN [d |-> counted, ret |-> FALSE, evaluated |-> FALSE]
        ELSE LET is_key_frame == ratio_is_key_frame(counted, new_frame)
                 n == counted.max_temporal_lag
             IN  [d |-> [counted EXCEPT
                             !.kf_dist = IF is_key_frame THEN 0 ELSE @,
                             !.prev_frames = [i \in 1..n |->
                                 IF i < n THEN counted.prev_frames[i + 1] ELSE new_frame]],
                  ret |-> is_key_frame, evaluated |-> TRUE]

dist_call_checks_first(d, new_frame) ==
    LET counted == [d EXCEPT !.frame_ind = @ + 1, !.kf_dist = @ + 1]
    IN  IF short_circuited(d.kf_dist, d.min_kf_distance)
        THEN [d |-> counted, ret |-> FALSE, evaluated |-> FALSE]
        ELSE LET is_key_frame == dist_is_key_frame(counted, new_frame)
             IN  [d |-> [counted EXCEPT
                             !.kf_dist = IF is_key_frame THEN 0 ELSE @,
                             !.prev_distribution = frame_hist(new_frame)],
                  ret |-> is_key_frame, evaluated |-> TRUE]

dist_call_stores_first(d, new_frame) ==
    LET counted == [d EXCEPT !.frame_ind = @ + 1, !.kf_dist = @ + 1,
                             !.prev_distribution = frame_hist(new_frame)]
    IN  IF short_circuited(counted.kf_dist, counted.min_kf_distance)
        THEN [d |-> counted, ret |-> FALSE, evaluated |-> FALSE]
        ELSE LET is_key_frame == dist_is_key_frame(d, new_frame)
             IN  [d |-> [counted EXCEPT !.kf_dist = IF is_key_frame THEN 0 ELSE @],
                  ret |-> is_key_frame, evaluated |-> TRUE]

\* KeyFrameDetPixelsDist.__call__
dist_call(d, new_frame) ==
    LET counted == [d EXCEPT !.frame_ind = @ + 1, !.kf_dist = @ + 1]
    IN  IF short_circuited(counted.kf_dist, counted.min_kf_distance)
        THEN [d |-> counted, ret |-> FALSE, evaluated |-> FALSE]
        ELSE LET is_key_frame == dist_is_key_frame(counted, new_frame)
             IN  [d |-> [counted EXCEPT
                             !.kf_dist = IF is_key_frame THEN 0 ELSE @,
                             !.prev_distribution = frame_hist(new_frame)],
                  ret |-> is_key_frame, evaluated |-> TRUE]

(***************************************************************************)
(* The store as a state machine.  fs is the file system under              *)
(* database_path, pd_df_fs_format the format the store was constructed     *)
(* with, last the operation that just returned, with its arguments and its *)
(* outcome, until the caller takes it, nops the number of operations       *)
(* called so far.                                                          *)
(***************************************************************************)
VARIABLES fs, pd_df_fs_format, last, nops, det

vars == <<fs, pd_df_fs_format, last, nops, det>>

NoOp == [op |-> "none", path |-> <<>>, name |-> "", data |-> "", use_hash |-> FALSE,
         res |-> "ok", file |-> Dir, content |-> <<>>]

Called(op, path, name, data, use_hash, res) ==
    [op |-> op, path |-> path, name |-> name, data |-> data, use_hash |-> use_hash,
     res |-> res, file |-> Dir, content |-> <<>>]

\* no detector is under observation
NoDet == [phase |-> "none"]

\* database_path holds nothing yet, or the store an earlier run initialized
InitStore ==
    /\ pd_df_fs_format \in PDDFFSFormat
    /\ fs \in {NoFs, initialize(NoFs, pd_df_fs_format).fs}
    /\ last = NoOp
    /\ nops = 0

Init == InitStore /\ det = NoDet

Initialize ==
    /\ last = NoOp
    /\ nops < MaxOps
    /\ LET r == initialize(fs, pd_df_fs_format)
       IN  /\ fs' = r.fs
           /\ last' = Called("initialize", <<>>, "", "", FALSE, r.res)
    /\ nops' = nops + 1
    /\ UNCHANGED <<pd_df_fs_format, det>>

ForceAddLevel(new_level_path, use_hash) ==
    /\ last = NoOp
    /\ nops < MaxOps
    /\ LET r == force_add_level(fs, pd_df_fs_format, new_level_path, use_hash)
       IN  /\ fs' = r.fs
           /\ last' = Called("force_add_level", new_level_path, "", "", use_hash, r.res)
    /\ nops' = nops + 1
    /\ UNCHANGED <<pd_df_fs_format, det>>

DeleteLevel(level_path) ==
    /\ last = NoOp
    /\ nops < MaxOps
    /\ LET r == delete_level(fs, pd_df_fs_format, level_path)
       IN  /\ fs' = r.fs
           /\ last' = Called("delete_level", level_path, "", "", FALSE, r.res)
    /\ nops' = nops + 1
    /\ UNCHANGED <<pd_df_fs_format, det>>

AddFile(level_path, file, file_name_with_ext, use_hash) ==
    /\ last = NoOp
    /\ nops < MaxOps
    /\ LET r == add_file(fs, pd_df_fs_format, level_path, file, file_name_with_ext, use_hash)
       IN  /\ fs' = r.fs
           /\ last' = Called("add_file", level_path, file_name_with_ext, file, use_hash, r.res)
    /\ nops' = nops + 1
    /\ UNCHANGED <<pd_df_fs_format, det>>

DeleteFile(file_path) ==
    /\ last = NoOp
    /\ nops < MaxOps
    /\ LET r == delete_file(fs, pd_df_fs_format, file_path)
       IN  /\ fs' = r.fs
           /\ last' = Called("delete_file", file_path, "", "", FALSE, r.res)
    /\ nops' = nops + 1
    /\ UNCHANGED <<pd_df_fs_format, det>>

GetFile(file_path) ==
    /\ last = NoOp
    /\ nops < MaxOps
    /\ LET r == get_file(fs, pd_df_fs_format, file_path)
       IN  last' = [Called("get_file", file_path, "", "", FALSE, r.res) EXCEPT !.file = r.val]
    /\ nops' = nops + 1
    /\ UNCHANGED <<fs, pd_df_fs_format, det>>

GetLevelContent(level_path) ==
    /\ last = NoOp
    /\ nops < MaxOps
    /\ LET r == get_level_content(fs, pd_df_fs_format, level_path)
       IN  last' = [Called("get_level_content", level_path, "", "", FALSE, r.res)
                        EXCEPT !.content = r.val]
    /\ nops' = nops + 1
    /\ UNCHANGED <<fs, pd_df_fs_format, det>>

\* the caller takes the outcome of the call
Return ==
    /\ last # NoOp
    /\ last' = NoOp
    /\ UNCHANGED <<fs, pd_df_fs_format, nops, det>>

Next ==
    \/ Return
    \/ Initialize
    \/ \E p \in LevelPaths, h \in BOOLEAN : ForceAddLevel(p, h)
    \/ \E p \in LevelPaths : DeleteLevel(p)
    \/ \E p \in LevelPaths, d \in FileBytes, n \in Names, h \in BOOLEAN : AddFile(p, d, n, h)
    \/ \E p \in ItemPaths : DeleteFile(p)
    \/ \E p \in ItemPaths : GetFile(p)
    \/ \E p \in LevelPaths : GetLevelContent(p)

Spec == Init /\ [][Next]_vars

(***************************************************************************)
(* The store when every call returns without an exception.                 *)
(***************************************************************************)
NextOk ==
    \/ Return
    \/ Initialize /\ last'.res = "ok"
    \/ \E p \in LevelPaths, h \in BOOLEAN : ForceAddLevel(p, h) /\ last'.res = "ok"
    \/ \E p \in LevelPaths : DeleteLevel(p) /\ last'.res = "ok"
    \/ \E p \in LevelPaths, d \in FileBytes, n \in Names, h \in BOOLEAN :
           AddFile(p, d, n, h) /\ last'.res = "ok"
    \/ \E p \in ItemPaths : DeleteFile(p) /\ last'.res = "ok"
    \/ \E p \in ItemPaths : GetFile(p) /\ last'.res = "ok"
    \/ \E p \in LevelPaths : GetLevelContent(p) /\ last'.res = "ok"

SpecOk == Init /\ [][NextOk]_vars

(***************************************************************************)
(* The round trip: initialize(), force_add_level(p), add_file(p, data, n,  *)
(* use_hash), get_file(p + [n]), each called when the one before returned  *)
(* without an exception; force_add_level takes its default use_hash = True.*)
(* last keeps the arguments of the calls made.                             *)
(***************************************************************************)
RoundTripInitialize ==
    /\ nops = 0
    /\ LET r == initialize(fs, pd_df_fs_format)
       IN  /\ fs' = r.fs
           /\ last' = Called("initialize", <<>>, "", "", FALSE, r.res)
    /\ nops' = 1
    /\ UNCHANGED <<pd_df_fs_format, det>>

RoundTripForceAddLevel(new_level_path) ==
    /\ nops = 1
    /\ last.res = "ok"
    /\ LET r == force_add_level(fs, pd_df_fs_format, new_level_path, TRUE)
       IN  /\ fs' = r.fs
           /\ last' = Called("force_add_level", new_level_path, "", "", TRUE, r.res)
    /\ nops' = 2
    /\ UNCHANGED <<pd_df_fs_format, det>>

RoundTripAddFile(file, file_name_with_ext, use_hash) ==
    /\ nops = 2
    /\ last.res = "ok"
    /\ LET r == add_file(fs, pd_df_fs_format, last.path, file, file_name_with_ext, use_hash)
       IN  /\ fs' = r.fs
           /\ last' = Called("add_file", last.path, file_name_with_ext, file, use_hash, r.res)
    /\ nops' = 3
    /\ UNCHANGED <<pd_df_fs_format, det>>

RoundTripGetFile ==
    /\ nops = 3
    /\ last.res = "ok"
    /\ LET r == get_file(fs, pd_df_fs_format, Append(last.path, last.name))
       IN  last' = [last EXCEPT !.op = "get_file", !.res = r.res, !.file = r.val]
    /\ nops' = 4
    /\ UNCHANGED <<fs, pd_df_fs_format, det>>

NextRoundTrip ==
    \/ RoundTripInitialize
    \/ \E p \in LevelPaths : RoundTripForceAddLevel(p)
    \/ \E d \in FileBytes, n \in Names, h \in BOOLEAN : RoundTripAddFile(d, n, h)
    \/ RoundTripGetFile

SpecRoundTrip == Init /\ [][NextRoundTrip]_vars

(***************************************************************************)
(* A detector as a state machine.  det holds the detector object d, and    *)
(* what was observed of it: phase, the last thing done to it               *)
(* ("constructed", "reset" or "called"), for a call the frame passed,      *)
(* the value returned and whether the call went past the hysteresis check, *)
(* calls, the number of calls made so far, and key_frames, the indices     *)
(* (frame_ind) of the calls that returned True since construction or the   *)
(* last reset.                                                             *)
(***************************************************************************)
Observed(d) ==
    [phase |-> "constructed", d |-> d, frame |-> 0, ret |-> FALSE, evaluated |-> FALSE,
     calls |-> 0, key_frames |-> {}]

Detectors ==
    {KeyFrameDetFramesRatio(t, n, m, a) :
        t \in RatioThresholds, n \in Lags, m \in 0..MaxMinKfDistance, a \in AggregationMethod}
    \cup {KeyFrameDetPixelsDist(t, m) : t \in DistThresholds, m \in 0..MaxMinKfDistance}

InitDet ==
    /\ det \in {Observed(d) : d \in Detectors}
    /\ fs = NoFs
    /\ pd_df_fs_format = ".csv"
    /\ last = NoOp
    /\ nops = 0

detector_call(d, new_frame) ==
    IF d.alg = "FramesRatio" THEN ratio_call(d, new_frame) ELSE dist_call(d, new_frame)

detector_reset(d) ==
    IF d.alg = "FramesRatio" THEN ratio_reset(d) ELSE dist_reset(d)

Call(new_frame) ==
    /\ det.calls < MaxFrames
    /\ LET r == detector_call(det.d, new_frame)
       IN  det' = [phase |-> "called", d |-> r.d, frame |-> new_frame, ret |-> r.ret,
                   evaluated |-> r.evaluated, calls |-> det.calls + 1,
                   key_frames |-> IF r.ret THEN det.key_frames \cup {r.d.frame_ind}
                                  ELSE det.key_frames]
    /\ UNCHANGED <<fs, pd_df_fs_format, last, nops>>

Reset ==
    /\ det.phase = "called"
    /\ det' = [det EXCEPT !.phase = "reset", !.d = detector_reset(det.d),
                          !.frame = 0, !.ret = FALSE, !.evaluated = FALSE,
                          !.key_frames = {}]
    /\ UNCHANGED <<fs, pd_df_fs_format, last, nops>>

NextDet ==
    \/ \E f \in Intensities : Call(f)
    \/ Reset

SpecDet == InitDet /\ [][NextDet]_vars

(***************************************************************************)
(* Key frame detectors: the minimal key frame distance.                    *)
(***************************************************************************)
\* C1: for FramesRatio and PixelsDist, any two calls since construction or
\* the last reset() that both returned True are at least min_kf_distance
\* calls apart.
C1_KeyFramesApart ==
    det.phase # "none" =>
        \A i \in det.key_frames : \A j \in det.key_frames :
            i < j => j - i >= det.d.min_kf_distance

\* two key frames exactly min_kf_distance apart, with min_kf_distance >= 2
C1_Witness ==
    /\ det.phase = "called"
    /\ det.d.min_kf_distance >= 2
    /\ \E i \in det.key_frames : i + det.d.min_kf_distance \in det.key_frames

\* the threshold comparison of a call made in the state construction and
\* reset() leave
first_call_comparison(d, new_frame) ==
    IF d.alg = "FramesRatio"
    THEN ratio_is_key_frame([d EXCEPT !.prev_frames = [i \in 1..d.max_temporal_lag |-> 0]], new_frame)
    ELSE dist_is_key_frame([d EXCEPT !.prev_distribution = NoDistribution], new_frame)

\* C2: the first call after construction and after every reset() goes past
\* the hysteresis check, and returns what the threshold comparison gives.
C2_FirstCallEvaluated ==
    (det.phase = "called" /\ det.d.frame_ind = 0) =>
        /\ det.evaluated
        /\ det.ret = first_call_comparison(det.d, det.frame)

\* a first call after a reset(), with min_kf_distance >= 2, that returned True
C2_Witness ==
    /\ det.phase = "called"
    /\ det.d.frame_ind = 0
    /\ det.calls > 1
    /\ det.d.min_kf_distance >= 2
    /\ det.ret

(***************************************************************************)
(* The blob store.                                                         *)
(***************************************************************************)
\* C3: initialize(); force_add_level(p); add_file(p, data, n, use_hash);
\* get_file(p + [n]) returns exactly data, for every p, data, n and use_hash:
\* no call of the sequence raises and the last one returns data.
C3_RoundTrip ==
    /\ nops >= 1 => last.res = "ok"
    /\ last.op = "get_file" => last.file = BytesFile(last.data)

\* some element of path p has no entry in the mapping table of the level
\* before it
NoEntry(f, fmt, p) ==
    \E k \in 1..Len(p) :
        LET t == _load_level_mapping_table(f, fmt, SubSeq(p, 1, k - 1))
        IN  t.res # "ok" \/ RowsNamed(t.rows, p[k]) = <<>>

OccurrencesOf(name, names) == Cardinality({i \in 1..Len(names) : names[i] = name})

\* C4: a force_add_level(p) called again right after a force_add_level(p)
\* changes no file and no directory of the store; when the first call
\* returned, the second returns too and get_level_content of the parent of p
\* lists the last element of p exactly once.
C4_ForceAddLevelIdempotent ==
    last.op = "force_add_level" =>
        \A h \in BOOLEAN :
            LET again == force_add_level(fs, pd_df_fs_format, last.path, h)
                listed == get_level_content(fs, pd_df_fs_format, Parent(last.path))
            IN  /\ again.fs = fs
                /\ last.res = "ok" =>
                       /\ again.res = "ok"
                       /\ last.path # <<>> =>
                              /\ listed.res = "ok"
                              /\ OccurrencesOf(Last(last.path), listed.val) = 1

\* a force_add_level of a two-level path has returned
C4_Witness ==
    /\ last.op = "force_add_level"
    /\ last.res = "ok"
    /\ Len(last.path) = 2
    /\ get_level_content(fs, pd_df_fs_format, last.path).res = "ok"

\* C5: get_file on a path with an element that has no entry in the mapping
\* table of the level before it fails with the OSError of a missing path.
C5_GetFileMiss ==
    (last.op = "get_file" /\ NoEntry(fs, pd_df_fs_format, last.path)) => last.res = "OSError"

\* the file of the mapping table of level path p
TableFileOf(f, fmt, p) == DfPath(_get_mapping_table_abs_path(_get_fs_path(f, fmt, p).path), fmt)

\* C6: after add_file(p, data, n) returned, an add_file(p, data2, n) fails
\* with the OSError of an existing item, leaves the mapping table of p as it
\* is, and get_file(p + [n]) still returns data.
C6_DuplicateRejected ==
    (last.op = "add_file" /\ last.res = "ok") =>
        \A data2 \in FileBytes, h \in BOOLEAN :
            LET again == add_file(fs, pd_df_fs_format, last.path, data2, last.name, h)
                table == TableFileOf(fs, pd_df_fs_format, last.path)
                got == get_file(again.fs, pd_df_fs_format, Append(last.path, last.name))
            IN  /\ again.res = "OSError"
                /\ table \in DOMAIN again.fs /\ again.fs[table] = fs[table]
                /\ got.res = "ok" /\ got.val = BytesFile(last.data)

\* the id the claim gives a name registered without hashing
plain_id(item_name) ==
    LET base == splitext(item_name)[1]
        ext == splitext(item_name)[2]
    IN  IF Len(base) <= 32 THEN base \o ext ELSE SubSeq(base, 1, 32) \o ext

\* C7: a name registered with use_hash = False gets the fs_id base name +
\* extension when the base name has at most 32 characters, and the first 32
\* characters of the base name + extension otherwise: the id derived, the
\* id in the row of the mapping table and the name of the file written.
C7_NonHashId ==
    (last.op = "add_file" /\ last.res = "ok" /\ ~last.use_hash) =>
        /\ item_fs_id(last.name, FALSE) = plain_id(last.name)
        /\ LET table == _load_level_mapping_table(fs, pd_df_fs_format, last.path)
           IN  table.res = "ok" =>
                   /\ RowsNamed(table.rows, last.name) # <<>>
                   /\ RowsNamed(table.rows, last.name)[1].fs_id = plain_id(last.name)
                   /\ Append(_get_fs_path(fs, pd_df_fs_format, last.path).path,
                             plain_id(last.name)) \in DOMAIN fs

\* a name with a base name longer than 32 characters was registered without
\* hashing, and its row is in the mapping table
C7_Witness ==
    /\ last.op = "add_file"
    /\ last.res = "ok"
    /\ ~last.use_hash
    /\ last.name = LongNameA
    /\ RowsNamed(_load_level_mapping_table(fs, pd_df_fs_format, last.path).rows, LongNameA) # <<>>

\* C8: initialize() leaves the empty store, whatever was there: the root
\* folder with an empty root mapping table and nothing else, so that
\* get_level_content([]) is empty and no path but [] resolves; a second
\* initialize() leaves the same state.
C8_InitializeEmpties ==
    last.op = "initialize" =>
        /\ last.res = "ok"
        /\ fs = initialize(NoFs, pd_df_fs_format).fs
        /\ get_level_content(fs, pd_df_fs_format, <<>>) = [res |-> "ok", val |-> <<>>]
        /\ \A p \in ItemPaths \ {<<>>} : _get_fs_path(fs, pd_df_fs_format, p).res = "Null"
        /\ initialize(fs, pd_df_fs_format).fs = fs

\* initialize() has returned after other operations
C8_Witness ==
    /\ last.op = "initialize"
    /\ last.res = "ok"
    /\ nops >= 3

\* C9: when every call so far returned without an exception, every name in
\* the mapping table of every level has a file or a directory named by its
\* fs_id under the file-system path of the level.
C9_TableConsistent ==
    \A p \in LevelPaths :
        LET table == _load_level_mapping_table(fs, pd_df_fs_format, p)
        IN  table.res = "ok" =>
                \A i \in 1..Len(table.rows) :
                    Append(_get_fs_path(fs, pd_df_fs_format, p).path, table.rows[i].fs_id)
                        \in DOMAIN fs

\* C10: no mapping table holds two rows with the same name.
C10_UniqueNames ==
    \A q \in DOMAIN fs :
        fs[q].kind = "table" =>
            \A i \in 1..Len(fs[q].rows) : \A j \in 1..Len(fs[q].rows) :
                fs[q].rows[i].name = fs[q].rows[j].name => i = j

\* a mapping table with two rows, after an add_file
C10_Witness ==
    /\ last.op = "add_file"
    /\ last.res = "ok"
    /\ \E q \in DOMAIN fs : fs[q].kind = "table" /\ Len(fs[q].rows) >= 2

\* C11: in a store whose root mapping table loads, _get_fs_path never
\* raises: for every user path it returns the complete list of fs_ids, one
\* for each element of the path, or the NullFSPath object.
C11_GetFsPathNeverRaises ==
    _load_level_mapping_table(fs, pd_df_fs_format, <<>>).res = "ok" =>
        \A p \in ItemPaths :
            LET fs_path == _get_fs_path(fs, pd_df_fs_format, p)
            IN  \/ fs_path.res = "Null"
                \/ fs_path.res = "ok" /\ Len(fs_path.path) = Len(p)

\* C12: an add_file on a level path that does not resolve fails with the
\* OSError of a missing path and changes no file of the store.
C12_AddFileMissingLevel ==
    [][(/\ last'.op = "add_file"
        /\ _get_fs_path(fs, pd_df_fs_format, last'.path).res # "ok")
       => (last'.res = "OSError" /\ fs' = fs)]_vars

\* the names get_level_content lists at level p of file system f
NamesAt(f, fmt, p) ==
    LET listed == get_level_content(f, fmt, p)
    IN  {listed.val[i] : i \in 1..Len(listed.val)}

\* C13: after a delete_file(p) or delete_level(p) that returned, the last
\* element of p is not listed at the parent of p, get_file(p) and
\* get_level_content(p) fail with the OSError of a missing path, and every
\* other name of the parent is listed as before, resolves as before and
\* gives the content it gave before; on a p that does not resolve both
\* operations fail with the OSError of a missing path.
C13_DeleteRemovesOnlyTheItem ==
    [][last'.op \in {"delete_file", "delete_level"} =>
          LET p == last'.path
              fmt == pd_df_fs_format
          IN  /\ _get_fs_path(fs, fmt, p).res # "ok" => last'.res = "OSError"
              /\ (last'.res = "ok" /\ p # <<>>) =>
                     /\ get_level_content(fs', fmt, Parent(p)).res = "ok"
                     /\ Last(p) \notin NamesAt(fs', fmt, Parent(p))
                     /\ get_file(fs', fmt, p).res = "OSError"
                     /\ get_level_content(fs', fmt, p).res = "OSError"
                     /\ \A n \in NamesAt(fs, fmt, Parent(p)) \ {Last(p)} :
                            /\ n \in NamesAt(fs', fmt, Parent(p))
                            /\ _get_fs_path(fs', fmt, Append(Parent(p), n))
                                   = _get_fs_path(fs, fmt, Append(Parent(p), n))
                            /\ get_file(fs', fmt, Append(Parent(p), n))
                                   = get_file(fs, fmt, Append(Parent(p), n))
                            /\ get_level_content(fs', fmt, Append(Parent(p), n))
                                   = get_level_content(fs, fmt, Append(Parent(p), n))]_vars

\* the names the call that returns in this step registers at level q
Registered(q) ==
    IF last'.op = "add_file" /\ q = last'.path THEN {last'.name}
    ELSE IF last'.op = "force_add_level" /\ Len(q) < Len(last'.path) /\ IsPrefix(q, last'.path)
    THEN {last'.path[Len(q) + 1]}
    ELSE {}

\* the names the call that returns in this step deletes at level q
Deleted(q) ==
    IF last'.op \in {"delete_file", "delete_level"} /\ last'.path # <<>>
       /\ q = Parent(last'.path)
    THEN {Last(last'.path)}
    ELSE {}

\* C14: get_level_content(p) returns exactly the names registered at p and
\* not deleted since, each once: a force_add_level or add_file that returns
\* adds the names it registers to what is listed at their levels, a
\* delete_file or delete_level that returns takes the name it deletes from
\* what is listed at its parent, and the names listed at every other level
\* outside a deleted level stay as they are; on a path that does not resolve
\* get_level_content fails with the OSError of a missing path.
C14_LevelContentIsRegistered ==
    [][/\ \A q \in LevelPaths :
              (/\ last'.op \in {"add_file", "force_add_level", "delete_file", "delete_level"}
               /\ last'.res = "ok"
               /\ get_level_content(fs, pd_df_fs_format, q).res = "ok"
               /\ ~(last'.op = "delete_level" /\ last'.path # <<>> /\ IsPrefix(last'.path, q)))
              => LET after == get_level_content(fs', pd_df_fs_format, q)
                 IN  /\ after.res = "ok"
                     /\ NamesAt(fs', pd_df_fs_format, q)
                            = (NamesAt(fs, pd_df_fs_format, q) \cup Registered(q)) \ Deleted(q)
                     /\ Len(after.val) = Cardinality(NamesAt(fs', pd_df_fs_format, q))
       /\ (/\ last'.op = "get_level_content"
           /\ _get_fs_path(fs, pd_df_fs_format, last'.path).res # "ok")
          => last'.res = "OSError"]_vars

\* C15: a force_add_level, add_file, delete_level or delete_file that raises
\* leaves every mapping table and every file and directory of the store as
\* it was before the call.
C15_FailureChangesNothing ==
    [][(/\ last'.op \in {"force_add_level", "add_file", "delete_level", "delete_file"}
        /\ last'.res # "ok")
       => fs' = fs]_vars

(***************************************************************************)
(* Key frame detectors: reset(), the short-circuit and the comparisons.    *)
(***************************************************************************)
\* the frame sequences of at most MaxStream frames
Streams == UNION {[1..n -> Intensities] : n \in 0..MaxStream}

\* the decisions detector d returns on the frames of S from the i-th on
RECURSIVE Decisions(_, _, _)
Decisions(d, S, i) ==
    IF i > Len(S) THEN <<>>
    ELSE LET decide(r) == <<r.ret>> \o Decisions(r.d, S, i + 1)
         IN  decide(detector_call(d, S[i]))

\* a newly constructed detector with the configuration of d
Fresh(d) ==
    IF d.alg = "FramesRatio"
    THEN KeyFrameDetFramesRatio(
             d.kf_threshold, d.max_temporal_lag, d.min_kf_distance,
             CHOOSE a \in AggregationMethod :
                 _get_aggregation_kernel(d.max_temporal_lag, a) = d.aggregation_kernel)
    ELSE KeyFrameDetPixelsDist(d.kf_threshold, d.min_kf_distance)

\* C16: after reset() a used detector returns, on every frame sequence, the
\* decisions a newly constructed detector with the same configuration
\* returns on it.
C16_ResetIsFresh ==
    det.phase = "reset" =>
        \A S \in Streams : Decisions(det.d, S, 1) = Decisions(Fresh(det.d), S, 1)

\* reset() was called on a detector that had taken a key frame and then
\* more frames
C16_Witness ==
    /\ det.phase = "reset"
    /\ det.calls >= 3
    /\ det.d.min_kf_distance >= 2

\* C17: a call of FramesRatio or PixelsDist whose incremented kf_dist is
\* still below min_kf_distance returns False and changes only frame_ind and
\* kf_dist, each by one: prev_frames and prev_distribution stay as they were.
C17_ShortCircuitOnlyCounts ==
    [][(/\ det.phase # "none"
        /\ det'.calls = det.calls + 1
        /\ det.d.kf_dist + 1 < det.d.min_kf_distance)
       => (/\ ~det'.ret
           /\ det'.d = [det.d EXCEPT !.frame_ind = @ + 1, !.kf_dist = @ + 1])]_vars

\* a call was short-circuited on a frame the detector does not hold
C17_Witness ==
    /\ det.phase = "called"
    /\ ~det.ret
    /\ det.d.kf_dist < det.d.min_kf_distance
    /\ IF det.d.alg = "FramesRatio"
       THEN det.d.prev_frames[det.d.max_temporal_lag] # det.frame
       ELSE det.d.prev_distribution # frame_hist(det.frame)

\* C18: after every call of PixelsDist, the short-circuited ones included,
\* prev_distribution is the histogram of the frame just passed in.
C18_DistributionAlwaysReplaced ==
    (det.phase = "called" /\ det.d.alg = "PixelsDist") =>
        det.d.prev_distribution = frame_hist(det.frame)

\* C19: a call of PixelsDist on a frame identical to the frame of the call
\* just before it does not return True, whatever min_kf_distance and the
\* threshold.
C19_SameFrameNotKey ==
    [][(/\ det.phase = "called"
        /\ det.d.alg = "PixelsDist"
        /\ det'.calls = det.calls + 1
        /\ det'.frame = det.frame)
       => ~det'.ret]_vars

\* C20: FramesRatio with max_temporal_lag = 1 and mean aggregation: an
\* evaluated call on the frame the evaluated call just before it stored in
\* the window returns False, for every frame, the all-black one included,
\* and every threshold.
C20_SameFrameRatioNotKey ==
    [][(/\ det.phase = "called"
        /\ det.d.alg = "FramesRatio"
        /\ det.d.max_temporal_lag = 1
        /\ det.d.aggregation_kernel = _get_aggregation_kernel(1, "mean")
        /\ det.evaluated
        /\ det'.calls = det.calls + 1
        /\ det'.evaluated
        /\ det'.frame = det.frame)
       => ~det'.ret]_vars

(***************************************************************************)
(* The detector of index_recording, observed with the stream it was fed:   *)
(* stream holds, for every call since construction or the last reset(),    *)
(* the frame passed in, the value returned and whether the call went past  *)
(* the hysteresis check.                                                   *)
(***************************************************************************)
Streamed(o, stream) ==
    [phase |-> o.phase, d |-> o.d, frame |-> o.frame, ret |-> o.ret,
     evaluated |-> o.evaluated, calls |-> o.calls, key_frames |-> o.key_frames,
     stream |-> stream]

InitStream ==
    /\ det \in {Streamed(Observed(d), <<>>) : d \in Detectors}
    /\ fs = NoFs
    /\ pd_df_fs_format = ".csv"
    /\ last = NoOp
    /\ nops = 0

CallStream(new_frame) ==
    /\ det.calls < MaxFrames
    /\ LET r == detector_call(det.d, new_frame)
       IN  det' = Streamed(
               [phase |-> "called", d |-> r.d, frame |-> new_frame, ret |-> r.ret,
                evaluated |-> r.evaluated, calls |-> det.calls + 1,
                key_frames |-> IF r.ret THEN det.key_frames \cup {r.d.frame_ind}
                               ELSE det.key_frames],
               Append(det.stream,
                      [frame |-> new_frame, ret |-> r.ret, evaluated |-> r.evaluated]))
    /\ UNCHANGED <<fs, pd_df_fs_format, last, nops>>

ResetStream ==
    /\ det.phase = "called"
    /\ det' = [det EXCEPT !.phase = "reset", !.d = detector_reset(det.d),
                          !.frame = 0, !.ret = FALSE, !.evaluated = FALSE,
                          !.key_frames = {}, !.stream = <<>>]
    /\ UNCHANGED <<fs, pd_df_fs_format, last, nops>>

NextStream ==
    \/ \E f \in Intensities : CallStream(f)
    \/ ResetStream

SpecStream == InitStream /\ [][NextStream]_vars

\* the frame the window of d aggregates to is all-white
reference_is_white(d) ==
    WeightedSum(d.prev_frames, d.aggregation_kernel, 1) = 255 * KernelDen

\* C21: FramesRatio: a call that goes past the hysteresis check with an
\* all-black frame, while the window aggregates to an all-white frame, has
\* frames_min = 0 against frames_max = 255 in every pixel (diff_ratio = 1)
\* and returns True, for every threshold below 1.
C21_BlackOnWhiteIsKey ==
    [][(/\ det.d.alg = "FramesRatio"
        /\ reference_is_white(det.d)
        /\ det'.calls = det.calls + 1
        /\ det'.frame = 0
        /\ det.d.kf_dist + 1 >= det.d.min_kf_distance)
       => (/\ Min2(0, WeightedSum(det.d.prev_frames, det.d.aggregation_kernel, 1)) = 0
           /\ Max2(0, WeightedSum(det.d.prev_frames, det.d.aggregation_kernel, 1)) = 255 * KernelDen
           /\ det'.ret)]_vars

\* an all-black frame was evaluated right after as many all-white frames as
\* the window holds, with the largest threshold
C21_Witness ==
    /\ det.phase = "called"
    /\ det.d.alg = "FramesRatio"
    /\ det.d.kf_threshold = 999
    /\ det.d.aggregation_kernel = _get_aggregation_kernel(det.d.max_temporal_lag, "mean")
    /\ Len(det.stream) > det.d.max_temporal_lag
    /\ \A i \in 1..det.d.max_temporal_lag :
           LET call == det.stream[Len(det.stream) - i]
           IN  call.frame = 255 /\ call.evaluated
    /\ det.stream[Len(det.stream)] = [frame |-> 0, ret |-> TRUE, evaluated |-> TRUE]

(***************************************************************************)
(* KeyFrameDetFramesDiff.  prev_frame is NoFrame (None) after construction *)
(* and after reset(), the all-black frame after set_video_properties.      *)
(***************************************************************************)
NoFrame == -1

\* KeyFrameDetFramesDiff.__init__
KeyFrameDetFramesDiff(debug) ==
    [alg |-> "FramesDiff", prev_frame |-> NoFrame, debug |-> debug]

diff_set_video_properties(d) == [d EXCEPT !.prev_frame = 0]

diff_reset(d) == [d EXCEPT !.prev_frame = NoFrame]

diff_call_keeps_prev_frame(d, new_frame) ==
    IF d.prev_frame = NoFrame
    THEN [d |-> d, ret |-> FALSE, raised |-> "TypeError"]
    ELSE [d |-> d, ret |-> TRUE, raised |-> "none"]

\* KeyFrameDetFramesDiff.__call__: new_frame - None raises TypeError before
\* prev_frame is assigned
diff_call(d, new_frame) ==
    IF d.prev_frame = NoFrame
    THEN [d |-> d, ret |-> FALSE, raised |-> "TypeError"]
    ELSE [d |-> [d EXCEPT !.prev_frame = new_frame], ret |-> TRUE, raised |-> "none"]

InitDiff ==
    /\ det \in {[phase |-> "constructed", d |-> KeyFrameDetFramesDiff(debug), frame |-> 0,
                 ret |-> FALSE, raised |-> "none", calls |-> 0, returned_true |-> 0] :
                debug \in BOOLEAN}
    /\ fs = NoFs
    /\ pd_df_fs_format = ".csv"
    /\ last = NoOp
    /\ nops = 0

DiffSetVideoProperties ==
    /\ det' = [det EXCEPT !.phase = "set", !.d = diff_set_video_properties(det.d),
                          !.frame = 0, !.ret = FALSE, !.raised = "none"]
    /\ UNCHANGED <<fs, pd_df_fs_format, last, nops>>

DiffCall(new_frame) ==
    /\ det.calls < MaxFrames
    /\ LET r == diff_call(det.d, new_frame)
       IN  det' = [phase |-> "called", d |-> r.d, frame |-> new_frame, ret |-> r.ret,
                   raised |-> r.raised, calls |-> det.calls + 1,
                   returned_true |-> IF r.ret THEN det.returned_true + 1
                                     ELSE det.returned_true]
    /\ UNCHANGED <<fs, pd_df_fs_format, last, nops>>

DiffReset ==
    /\ det' = [det EXCEPT !.phase = "reset", !.d = diff_reset(det.d),
                          !.frame = 0, !.ret = FALSE, !.raised = "none"]
    /\ UNCHANGED <<fs, pd_df_fs_format, last, nops>>

NextDiff ==
    \/ DiffSetVideoProperties
    \/ \E f \in Intensities : DiffCall(f)
    \/ DiffReset

SpecDiff == InitDiff /\ [][NextDiff]_vars

\* C22: every call of FramesDiff made while the frame set_video_properties
\* or an earlier call stored is in place returns True, whatever the frame
\* and however close the call before it, and leaves prev_frame at the frame
\* just passed in.
C22_FramesDiffAlwaysKey ==
    [][(/\ det.d.prev_frame # NoFrame
        /\ det'.calls = det.calls + 1)
       => (/\ det'.ret
           /\ det'.raised = "none"
           /\ det'.d.prev_frame = det'.frame)]_vars

\* three calls in a row returned True, the last on the frame of the call
\* before it
C22_Witness ==
    /\ det.phase = "called"
    /\ det.ret
    /\ det.calls >= 3
    /\ det.returned_true = det.calls
    /\ det.frame = 255
    /\ det.d.prev_frame = 255

(***************************************************************************)
(* The store: how levels come to exist.                                    *)
(***************************************************************************)
\* get_level_content succeeds on level_path
LevelExists(f, fmt, level_path) == get_level_content(f, fmt, level_path).res = "ok"

\* C23: in a store whose root mapping table loads, a non-root level on which
\* get_level_content fails before a call and succeeds after it is a prefix
\* of the path of that call, and the call is a force_add_level: no add_file,
\* delete_file, delete_level, get_file or get_level_content call makes a
\* level exist.
C23_OnlyForceAddLevelCreates ==
    [][(/\ LevelExists(fs, pd_df_fs_format, <<>>)
        /\ last'.op \in {"force_add_level", "add_file", "delete_file", "delete_level",
                         "get_file", "get_level_content"})
       => \A q \in LevelPaths \ {<<>>} :
              (~LevelExists(fs, pd_df_fs_format, q) /\ LevelExists(fs', pd_df_fs_format, q))
                  => (last'.op = "force_add_level" /\ IsPrefix(q, last'.path))]_vars

(***************************************************************************)
(* Construction of the detectors and of Resolution.  Thresholds are given  *)
(* in millionths, so that the bounds 1e-6 and 1 - 1e-6 are 1 and 999999.   *)
(***************************************************************************)
MAX_RESOLUTION_WIDTH == 8192
MAX_RESOLUTION_HEIGHT == 4320
DebugLevel == {0, 1, 2}
ThresholdUnit == 1000000

\* param_validators.check_parameter_value_in_range: TRUE when it returns,
\* FALSE when it raises ValueError
check_parameter_value_in_range(param_value, lower_bound, upper_bound) ==
    ~(param_value < lower_bound \/ param_value > upper_bound)

check_parameter_value_in_list(param_value, allowed_vals) == param_value \in allowed_vals

\* a Resolution whose attributes are not assigned yet
NoResolution == [width |-> 0, height |-> 0, channels |-> 0]

Resolution_width_from_zero(r, res_width) ==
    IF check_parameter_value_in_range(res_width, 0, MAX_RESOLUTION_WIDTH)
    THEN [raised |-> "none", r |-> [r EXCEPT !.width = res_width]]
    ELSE [raised |-> "ValueError", r |-> r]

\* Resolution.width setter
Resolution_width(r, res_width) ==
    IF check_parameter_value_in_range(res_width, 1, MAX_RESOLUTION_WIDTH)
    THEN [raised |-> "none", r |-> [r EXCEPT !.width = res_width]]
    ELSE [raised |-> "ValueError", r |-> r]

\* Resolution.height setter: the upper bound is MAX_RESOLUTION_WIDTH
Resolution_height(r, res_height) ==
    IF check_parameter_value_in_range(res_height, 1, MAX_RESOLUTION_WIDTH)
    THEN [raised |-> "none", r |-> [r EXCEPT !.height = res_height]]
    ELSE [raised |-> "ValueError", r |-> r]

\* Resolution.channels setter
Resolution_channels(r, res_channels) ==
    IF check_parameter_value_in_list(res_channels, {-1, 1, 3, 4})
    THEN [raised |-> "none", r |-> [r EXCEPT !.channels = res_channels]]
    ELSE [raised |-> "ValueError", r |-> r]

\* Resolution.__init__: the three assignments in turn, up to the first that
\* raises
Resolution(res_width, res_height, res_channels) ==
    LET third(h) == IF h.raised # "none" THEN h
                    ELSE Resolution_channels(h.r, res_channels)
        second(w) == IF w.raised # "none" THEN w
                     ELSE third(Resolution_height(w.r, res_height))
    IN  second(Resolution_width(NoResolution, res_width))

\* KeyFrameDetFramesRatio.__init__ up to the construction of self.res, on
\* arguments of the declared types: "none" when a detector is constructed
FramesRatio_init(debug_level, threshold, processing_res_width, processing_res_height, max_temporal_lag, min_kf_distance, lag_frames_aggregation) ==
    IF /\ check_parameter_value_in_range(threshold, 1, ThresholdUnit - 1)
       /\ check_parameter_value_in_range(debug_level, 0, 2)
       /\ check_parameter_value_in_range(processing_res_width, 0, MAX_RESOLUTION_WIDTH)
       /\ check_parameter_value_in_range(processing_res_height, 0, MAX_RESOLUTION_HEIGHT)
       /\ check_parameter_value_in_range(max_temporal_lag, 1, 100)
       /\ check_parameter_value_in_range(min_kf_distance, 0, 5000)
       /\ check_parameter_value_in_list(lag_frames_aggregation, AggregationMethod)
    THEN Resolution(processing_res_width, processing_res_height, 3).raised
    ELSE "ValueError"

\* KeyFrameDetPixelsDist.__init__; the upper bound 1e10 of the threshold is
\* above every threshold that can be written in millionths here
PixelsDist_init(debug_level, threshold, processing_res_width, processing_res_height, min_kf_distance) ==
    IF /\ threshold >= 1
       /\ check_parameter_value_in_range(debug_level, 0, 2)
       /\ check_parameter_value_in_range(processing_res_width, 0, MAX_RESOLUTION_WIDTH)
       /\ check_parameter_value_in_range(processing_res_height, 0, MAX_RESOLUTION_HEIGHT)
       /\ check_parameter_value_in_range(min_kf_distance, 0, 5000)
    THEN Resolution(processing_res_width, processing_res_height, 3).raised
    ELSE "ValueError"

\* the arguments a detector is constructed with: the ends of every range
\* and the values next to them
DebugLevelArgs == {-1, 0, 2, 3}
WidthArgs == {0, 1, MAX_RESOLUTION_WIDTH, MAX_RESOLUTION_WIDTH + 1}
HeightArgs == {0, 1, MAX_RESOLUTION_HEIGHT, MAX_RESOLUTION_HEIGHT + 1}
LagArgs == {0, 1, 100, 101}
MinKfDistanceArgs == {-1, 0, 5000, 5001}
AggregationArgs == AggregationMethod \cup {"median"}
ThresholdArgs == {0, 1, ThresholdUnit - 1, ThresholdUnit, 2 * ThresholdUnit}

InitConstruct ==
    /\ det = NoDet
    /\ fs = NoFs
    /\ pd_df_fs_format = ".csv"
    /\ last = NoOp
    /\ nops = 0

ConstructFramesRatio(debug_level, threshold, width, height, lag, dist, aggregation) ==
    /\ det = NoDet
    /\ det' = [phase |-> "constructing", alg |-> "FramesRatio", debug_level |-> debug_level,
               threshold |-> threshold, processing_res_width |-> width,
               processing_res_height |-> height, max_temporal_lag |-> lag,
               min_kf_distance |-> dist, lag_frames_aggregation |-> aggregation,
               raised |-> FramesRatio_init(debug_level, threshold, width, height, lag,
                                           dist, aggregation)]
    /\ UNCHANGED <<fs, pd_df_fs_format, last, nops>>

ConstructPixelsDist(debug_level, threshold, width, height, dist) ==
    /\ det = NoDet
    /\ det' = [phase |-> "constructing", alg |-> "PixelsDist", debug_level |-> debug_level,
               threshold |-> threshold, processing_res_width |-> width,
               processing_res_height |-> height, max_temporal_lag |-> 1,
               min_kf_distance |-> dist, lag_frames_aggregation |-> "mean",
               raised |-> PixelsDist_init(debug_level, threshold, width, height, dist)]
    /\ UNCHANGED <<fs, pd_df_fs_format, last, nops>>

\* the caller drops the detector, or the exception, and constructs another
Discard ==
    /\ det # NoDet
    /\ det' = NoDet
    /\ UNCHANGED <<fs, pd_df_fs_format, last, nops>>

NextConstruct ==
    \/ \E dl \in DebugLevelArgs, t \in ThresholdArgs, w \in WidthArgs, h \in HeightArgs,
          n \in LagArgs, m \in MinKfDistanceArgs, a \in AggregationArgs :
           ConstructFramesRatio(dl, t, w, h, n, m, a)
    \/ \E dl \in DebugLevelArgs, t \in ThresholdArgs, w \in WidthArgs, h \in HeightArgs,
          m \in MinKfDistanceArgs :
           ConstructPixelsDist(dl, t, w, h, m)
    \/ Discard

SpecConstruct == InitConstruct /\ [][NextConstruct]_vars

\* C24: constructing KeyFrameDetFramesRatio raises whenever debug_level is
\* outside {0,1,2}, the width outside 1..8192, the height outside 1..4320,
\* max_temporal_lag outside 1..100, min_kf_distance outside 0..5000,
\* lag_frames_aggregation neither "mean" nor "decaying", or the threshold
\* <= 0 or >= 1; constructing KeyFrameDetPixelsDist raises likewise for its
\* parameters, its threshold having the lower bound only.
C24_ConstructionValidates ==
    det.phase = "constructing" =>
        ((\/ det.debug_level \notin DebugLevel
          \/ det.processing_res_width \notin 1..MAX_RESOLUTION_WIDTH
          \/ det.processing_res_height \notin 1..MAX_RESOLUTION_HEIGHT
          \/ det.min_kf_distance \notin 0..5000
          \/ det.threshold <= 0
          \/ /\ det.alg = "FramesRatio"
             /\ \/ det.max_temporal_lag \notin 1..100
                \/ det.lag_frames_aggregation \notin {"mean", "decaying"}
                \/ det.threshold >= ThresholdUnit)
         => det.raised # "none")

\* a construction raised although only the width, 0, is out of range: the
\* range check of __init__ lets it pass and the Resolution setter rejects it
C24_Witness ==
    /\ det.phase = "constructing"
    /\ det.raised = "ValueError"
    /\ det.processing_res_width = 0
    /\ det.debug_level \in DebugLevel
    /\ det.processing_res_height \in 1..MAX_RESOLUTION_HEIGHT
    /\ det.min_kf_distance \in 0..5000
    /\ det.max_temporal_lag \in 1..100
    /\ det.lag_frames_aggregation \in {"mean", "decaying"}
    /\ det.threshold \in 1..(ThresholdUnit - 1)

(***************************************************************************)
(* A Resolution object: construction, then assignments to its attributes.  *)
(* det holds the object r, the attribute and value of the last assignment, *)
(* what it raised and the object before it.                                *)
(***************************************************************************)
ResolutionWidths == {0, 1, MAX_RESOLUTION_WIDTH, MAX_RESOLUTION_WIDTH + 1}
ResolutionHeights ==
    {0, 1, MAX_RESOLUTION_HEIGHT, MAX_RESOLUTION_HEIGHT + 1,
     MAX_RESOLUTION_WIDTH, MAX_RESOLUTION_WIDTH + 1}
ResolutionChannels == {-1, 0, 1, 2, 3, 4}

InitResolution ==
    /\ det = NoDet
    /\ fs = NoFs
    /\ pd_df_fs_format = ".csv"
    /\ last = NoOp
    /\ nops = 0

\* Resolution(res_width, res_height, res_channels); no object when it raises
ConstructResolution(res_width, res_height, res_channels) ==
    /\ det = NoDet
    /\ LET made == Resolution(res_width, res_height, res_channels)
       IN  det' = [phase |-> IF made.raised = "none" THEN "resolution" ELSE "no resolution",
                   r |-> made.r, attribute |-> "__init__", value |-> 0,
                   raised |-> made.raised, before |-> NoResolution]
    /\ UNCHANGED <<fs, pd_df_fs_format, last, nops>>

Assigned(attribute, value, set) ==
    [phase |-> "resolution", r |-> set.r, attribute |-> attribute, value |-> value,
     raised |-> set.raised, before |-> det.r]

SetWidth(res_width) ==
    /\ det.phase = "resolution"
    /\ det' = Assigned("width", res_width, Resolution_width(det.r, res_width))
    /\ UNCHANGED <<fs, pd_df_fs_format, last, nops>>

SetHeight(res_height) ==
    /\ det.phase = "resolution"
    /\ det' = Assigned("height", res_height, Resolution_height(det.r, res_height))
    /\ UNCHANGED <<fs, pd_df_fs_format, last, nops>>

SetChannels(res_channels) ==
    /\ det.phase = "resolution"
    /\ det' = Assigned("channels", res_channels, Resolution_channels(det.r, res_channels))
    /\ UNCHANGED <<fs, pd_df_fs_format, last, nops>>

\* the failed construction is dropped
DropResolution ==
    /\ det.phase = "no resolution"
    /\ det' = NoDet
    /\ UNCHANGED <<fs, pd_df_fs_format, last, nops>>

NextResolution ==
    \/ \E w \in ResolutionWidths, h \in ResolutionHeights, c \in ResolutionChannels :
           ConstructResolution(w, h, c)
    \/ \E w \in ResolutionWidths : SetWidth(w)
    \/ \E h \in ResolutionHeights : SetHeight(h)
    \/ \E c \in ResolutionChannels : SetChannels(c)
    \/ DropResolution

SpecResolution == InitResolution /\ [][NextResolution]_vars

\* the values the specification admits for an attribute
admitted(attribute) ==
    IF attribute = "width" THEN 1..MAX_RESOLUTION_WIDTH
    ELSE IF attribute = "height" THEN 1..MAX_RESOLUTION_HEIGHT
    ELSE {-1, 1, 3, 4}

\* C25: a Resolution object has, after construction and after every
\* assignment, width in 1..8192, height in 1..4320 and channels in
\* {-1,1,3,4}; an assignment of a value outside these raises and leaves the
\* object as it was.
C25_ResolutionInRange ==
    det.phase = "resolution" =>
        /\ det.r.width \in admitted("width")
        /\ det.r.height \in admitted("height")
        /\ det.r.channels \in admitted("channels")
        /\ (det.attribute # "__init__" /\ det.value \notin admitted(det.attribute))
               => (det.raised # "none" /\ det.r = det.before)

(***************************************************************************)
(* Key frame detectors: the window and the distance counter over a stream. *)
(***************************************************************************)
\* the frames of the calls of stream that went past the hysteresis check
EvaluatedFrames(stream) ==
    LET went_past(call) == call.evaluated
        calls == SelectSeq(stream, went_past)
    IN  [i \in 1..Len(calls) |-> calls[i].frame]

RECURSIVE CallsSinceTrue(_)
CallsSinceTrue(stream) ==
    IF stream = <<>> \/ stream[Len(stream)].ret THEN 0
    ELSE 1 + CallsSinceTrue(SubSeq(stream, 1, Len(stream) - 1))

ReturnedTrue(stream) == \E i \in 1..Len(stream) : stream[i].ret

\* C27: right after a call of FramesRatio or PixelsDist, kf_dist is 0 if and
\* only if the call returned True; otherwise it is the number of calls made
\* since the last call that returned True, or min_kf_distance plus the
\* number of calls since construction or reset() when none returned True.
C27_KfDistCountsCalls ==
    det.phase = "called" =>
        /\ (det.d.kf_dist = 0) <=> det.ret
        /\ ~det.ret =>
               det.d.kf_dist = IF ReturnedTrue(det.stream)
                               THEN CallsSinceTrue(det.stream)
                               ELSE det.d.min_kf_distance + Len(det.stream)

\* three or more calls were made since the last key frame, with
\* min_kf_distance >= 2
C27_Witness ==
    /\ det.phase = "called"
    /\ det.d.min_kf_distance >= 2
    /\ ~det.ret
    /\ ReturnedTrue(det.stream)
    /\ CallsSinceTrue(det.stream) >= 3

\* C28: in a store whose root mapping table loads, after a
\* force_add_level(p) that returned without error p is a level:
\* get_level_content(p) succeeds and add_file(p, data, n) succeeds for every
\* name n not listed at p, also when an element of p was registered as a
\* file before the call.
C28_ForceAddLevelMakesLevel ==
    [][(/\ LevelExists(fs, pd_df_fs_format, <<>>)
        /\ last'.op = "force_add_level"
        /\ last'.res = "ok")
       => /\ LevelExists(fs', pd_df_fs_format, last'.path)
          /\ \A n \in Names \ NamesAt(fs', pd_df_fs_format, last'.path) :
                 \A data \in FileBytes, h \in BOOLEAN :
                     add_file(fs', pd_df_fs_format, last'.path, data, n, h).res = "ok"]_vars

(***************************************************************************)
(* A FramesRatio detector through its whole interface: det holds the       *)
(* detector d, the arguments it was constructed with and the methods       *)
(* called on it so far.                                                    *)
(***************************************************************************)
\* KeyFrameDetFramesRatio.set_video_properties: the body is `...`
ratio_set_video_properties(d) == d

InitKernel ==
    /\ det \in {[phase |-> "constructed",
                 d |-> KeyFrameDetFramesRatio(t, n, m, a),
                 max_temporal_lag |-> n, lag_frames_aggregation |-> a,
                 calls |-> 0, done |-> {}] :
                t \in RatioThresholds, n \in Lags, m \in 0..MaxMinKfDistance,
                a \in AggregationMethod}
    /\ fs = NoFs
    /\ pd_df_fs_format = ".csv"
    /\ last = NoOp
    /\ nops = 0

KernelSetVideoProperties ==
    /\ det' = [det EXCEPT !.phase = "set", !.d = ratio_set_video_properties(det.d),
                          !.done = @ \cup {"set_video_properties"}]
    /\ UNCHANGED <<fs, pd_df_fs_format, last, nops>>

KernelCall(new_frame) ==
    /\ det.calls < MaxFrames
    /\ det' = [det EXCEPT !.phase = "called", !.d = ratio_call(det.d, new_frame).d,
                          !.calls = @ + 1, !.done = @ \cup {"__call__"}]
    /\ UNCHANGED <<fs, pd_df_fs_format, last, nops>>

KernelReset ==
    /\ det' = [det EXCEPT !.phase = "reset", !.d = ratio_reset(det.d),
                          !.done = @ \cup {"reset"}]
    /\ UNCHANGED <<fs, pd_df_fs_format, last, nops>>

NextKernel ==
    \/ KernelSetVideoProperties
    \/ \E f \in Intensities : KernelCall(f)
    \/ KernelReset

SpecKernel == InitKernel /\ [][NextKernel]_vars

RECURSIVE Pow(_, _)
Pow(b, e) == IF e = 0 THEN 1 ELSE b * Pow(b, e - 1)

\* C29: the aggregation kernel of FramesRatio is, after construction and
\* after every __call__, reset() and set_video_properties(), what the
\* constructor's arguments give: max_temporal_lag = N weights, each 1/N for
\* "mean" and 0.9^(N-1-i) * 0.1 at index i = 0..N-1 for "decaying" (weights
\* in hundredths: kernel * 10^(N-i) = 100 * 9^(N-1-i)).
C29_KernelAsConstructed ==
    det.phase # "none" =>
        LET N == det.max_temporal_lag
            kernel == det.d.aggregation_kernel
        IN  /\ det.d.max_temporal_lag = N
            /\ Len(kernel) = N
            /\ \A i \in 0..(N - 1) :
                   IF det.lag_frames_aggregation = "mean"
                   THEN kernel[i + 1] * N = KernelDen
                   ELSE kernel[i + 1] * Pow(10, N - i) = KernelDen * Pow(9, N - 1 - i)

\* a decaying kernel of two weights after calls, a reset() and a
\* set_video_properties()
C29_Witness ==
    /\ det.phase # "none"
    /\ det.lag_frames_aggregation = "decaying"
    /\ det.max_temporal_lag = 2
    /\ det.done = {"__call__", "reset", "set_video_properties"}
    /\ det.calls >= 2

\* the rows of the mapping table of level_path, none when it does not load
RowsAt(f, fmt, level_path) ==
    LET rows(mapping_table) ==
            IF mapping_table.res # "ok" THEN {}
            ELSE {mapping_table.rows[i] : i \in 1..Len(mapping_table.rows)}
    IN  rows(_load_level_mapping_table(f, fmt, level_path))

\* C30: within one level, rows with distinct names have distinct fs_ids,
\* whatever the mix of use_hash values and name lengths of the
\* registrations.
C30_DistinctIdsPerLevel ==
    \A level_path \in LevelPaths :
        \A a \in RowsAt(fs, pd_df_fs_format, level_path) :
            \A b \in RowsAt(fs, pd_df_fs_format, level_path) :
                a.name # b.name => a.fs_id # b.fs_id

(***************************************************************************)
(* The store: what a call leaves of the levels and files it is not about.  *)
(***************************************************************************)
\* C31: force_add_level never changes the content of a level that existed
\* before the call, except for the new child's name in its parent's table:
\* every level that was listable before is listable afterwards with every
\* name it had, and every file that was readable before gives the same
\* bytes.
C31_ForceAddLevelKeepsContent ==
    [][last'.op = "force_add_level"
       => /\ \A q \in LevelPaths :
                 LevelExists(fs, pd_df_fs_format, q)
                     => /\ LevelExists(fs', pd_df_fs_format, q)
                        /\ NamesAt(fs, pd_df_fs_format, q) \subseteq NamesAt(fs', pd_df_fs_format, q)
          /\ \A p \in ItemPaths :
                 get_file(fs, pd_df_fs_format, p).res = "ok"
                     => get_file(fs', pd_df_fs_format, p) = get_file(fs, pd_df_fs_format, p)]_vars

\* C32: add_file never writes the file over the mapping table of its level:
\* after an add_file(p, data, n) that returned, for every name n, the one of
\* the mapping-table file included, and either use_hash, the mapping table
\* of p loads and holds the rows it held before followed by the row of n.
C32_AddFileKeepsTable ==
    [][(last'.op = "add_file" /\ last'.res = "ok")
       => LET before == _load_level_mapping_table(fs, pd_df_fs_format, last'.path)
              after == _load_level_mapping_table(fs', pd_df_fs_format, last'.path)
          IN  /\ after.res = "ok"
              /\ Len(after.rows) = Len(before.rows) + 1
              /\ SubSeq(after.rows, 1, Len(before.rows)) = before.rows
              /\ after.rows[Len(after.rows)].name = last'.name]_vars

\* what C33 says of a delete_level(p) that returned: no path with p as a
\* prefix resolves, and a force_add_level(p) made next gives an empty
\* level, with get_level_content(p) empty and no file path under p readable
subtree_removed(f, fmt, p) ==
    /\ \A q \in ItemPaths : IsPrefix(p, q) => _get_fs_path(f, fmt, q).res # "ok"
    /\ \A h \in BOOLEAN :
           LET again == force_add_level(f, fmt, p, h)
           IN  again.res = "ok" =>
                   /\ get_level_content(again.fs, fmt, p) = [res |-> "ok", val |-> <<>>]
                   /\ \A q \in ItemPaths :
                          (IsPrefix(p, q) /\ q # p) => get_file(again.fs, fmt, q).res # "ok"

\* C33, as stated: after every delete_level(p) that returned, the subtree of
\* p is removed.
C33_DeleteLevelRemovesSubtree ==
    [][(last'.op = "delete_level" /\ last'.res = "ok")
       => subtree_removed(fs', pd_df_fs_format, last'.path)]_vars

\* C33, amended: after every delete_level(p) that returned, on a path p
\* other than the root [], the subtree of p is removed (delete_level([])
\* returns without deleting anything).
C33_DeleteLevelRemovesSubtreeBelowRoot ==
    [][(last'.op = "delete_level" /\ last'.res = "ok" /\ last'.path # <<>>)
       => subtree_removed(fs', pd_df_fs_format, last'.path)]_vars

\* a level below the root was deleted as the third operation on the store
C33_Witness ==
    /\ last.op = "delete_level"
    /\ last.res = "ok"
    /\ last.path # <<>>
    /\ nops >= 3
    /\ LevelExists(fs, pd_df_fs_format, <<>>)
    /\ NamesAt(fs, pd_df_fs_format, <<>>) # {}

\* the call that returns in this step is a delete of the wrong kind: a
\* delete_file on a path that resolves to a folder, or a delete_level on a
\* path that resolves to a file
wrong_kind_delete ==
    LET of_other_kind(fs_path) ==
            /\ fs_path.res = "ok"
            /\ path_exists(fs, _get_absolute_fs_path_str(fs_path.path))
            /\ (last'.op = "delete_level")
                   = path_isfile(fs, _get_absolute_fs_path_str(fs_path.path))
    IN  /\ last'.op \in {"delete_file", "delete_level"}
        /\ last'.path # <<>>
        /\ of_other_kind(_get_fs_path(fs, pd_df_fs_format, last'.path))

C35_SuppressedExactly ==
    det.phase = "called" =>
        LET m == det.d.min_kf_distance
            stream == det.stream
        IN  /\ \A i \in 1..Len(stream) : stream[i].ret =>
                   \A j \in (i + 1)..Len(stream) :
                       /\ j - i < m => (~stream[j].evaluated /\ ~stream[j].ret)
                       /\ j - i = Max2(m, 1) => stream[j].evaluated
            /\ \A j \in 1..Len(stream) : ~stream[j].evaluated =>
                   \E i \in 1..(j - 1) : stream[i].ret /\ j - i < m

\* with min_kf_distance = 3 a call returned True, the two calls after it
\* were suppressed and the third was evaluated
C35_Witness ==
    /\ det.phase = "called"
    /\ det.d.min_kf_distance = 3
    /\ Len(det.stream) >= 4
    /\ LET n == Len(det.stream)
       IN  /\ det.stream[n - 3].ret
           /\ ~det.stream[n - 2].evaluated
           /\ ~det.stream[n - 1].evaluated
           /\ det.stream[n].evaluated

\* C36: the first frame FramesRatio is given after construction or reset()
\* is a key frame, for every frame content, max_temporal_lag, aggregation
\* kernel and threshold: the reference aggregated from the all-zero window
\* is zero and the first call is evaluated and returns True.
C36_FirstFrameIsKey ==
    det.d.alg = "FramesRatio" =>
        /\ det.stream = <<>> =>
               /\ WeightedSum(det.d.prev_frames, det.d.aggregation_kernel, 1) = 0
               /\ \A new_frame \in Intensities :
                      /\ ratio_call(det.d, new_frame).evaluated
                      /\ ratio_call(det.d, new_frame).ret
        /\ det.stream # <<>> => (det.stream[1].evaluated /\ det.stream[1].ret)

\* after a reset() a black frame was given to a detector with a window of
\* two frames and the highest threshold, and min_kf_distance >= 2
C36_Witness ==
    /\ det.phase = "called"
    /\ det.d.alg = "FramesRatio"
    /\ det.calls > Len(det.stream)
    /\ Len(det.stream) = 1
    /\ det.stream[1].frame = 0
    /\ det.stream[1].ret
    /\ det.d.max_temporal_lag = 2
    /\ det.d.min_kf_distance >= 2
    /\ \A t \in RatioThresholds : det.d.kf_threshold >= t

(***************************************************************************)
(* Two detectors of the same class and configuration, but for              *)
(* min_kf_distance 0 in one and 1 in the other, given the same frames:     *)
(* det.zero and det.one are the detectors, det.stream the calls made since *)
(* construction or the last reset() with what each returned.               *)
(***************************************************************************)
TwinDetectors ==
    {<<zero, one>> \in Detectors \X Detectors :
        /\ zero.min_kf_distance = 0
        /\ one.min_kf_distance = 1
        /\ one.alg = zero.alg
        /\ one.kf_threshold = zero.kf_threshold
        /\ one.max_temporal_lag = zero.max_temporal_lag
        /\ one.aggregation_kernel = zero.aggregation_kernel}

InitTwin ==
    /\ det \in {[phase |-> "constructed", zero |-> pair[1], one |-> pair[2],
                 calls |-> 0, stream |-> <<>>] : pair \in TwinDetectors}
    /\ fs = NoFs
    /\ pd_df_fs_format = ".csv"
    /\ last = NoOp
    /\ nops = 0

TwinCall(new_frame) ==
    /\ det.calls < MaxFrames
    /\ LET both(of_zero, of_one) ==
               [det EXCEPT !.phase = "called", !.zero = of_zero.d, !.one = of_one.d,
                           !.calls = @ + 1,
                           !.stream = Append(@, [frame |-> new_frame,
                               zero |-> [ret |-> of_zero.ret, evaluated |-> of_zero.evaluated],
                               one |-> [ret |-> of_one.ret, evaluated |-> of_one.evaluated]])]
       IN  det' = both(detector_call(det.zero, new_frame), detector_call(det.one, new_frame))
    /\ UNCHANGED <<fs, pd_df_fs_format, last, nops>>

TwinReset ==
    /\ det.phase = "called"
    /\ det' = [det EXCEPT !.phase = "reset", !.zero = detector_reset(det.zero),
                          !.one = detector_reset(det.one), !.stream = <<>>]
    /\ UNCHANGED <<fs, pd_df_fs_format, last, nops>>

NextTwin ==
    \/ \E f \in Intensities : TwinCall(f)
    \/ TwinReset

SpecTwin == InitTwin /\ [][NextTwin]_vars

\* C37: two FramesRatio, or two PixelsDist, that differ only in
\* min_kf_distance being 0 in one and 1 in the other return the same
\* decision on every call, and every call of either is evaluated.
C37_ZeroAndOneAlike ==
    \A i \in 1..Len(det.stream) :
        /\ det.stream[i].zero.ret = det.stream[i].one.ret
        /\ det.stream[i].zero.evaluated
        /\ det.stream[i].one.evaluated

\* both detectors returned True on two calls in a row, after a call that
\* returned False
C37_Witness ==
    /\ det.phase = "called"
    /\ Len(det.stream) >= 3
    /\ LET n == Len(det.stream)
       IN  /\ ~det.stream[n - 2].one.ret
           /\ det.stream[n - 1].one.ret /\ det.stream[n - 1].zero.ret
           /\ det.stream[n].one.ret /\ det.stream[n].zero.ret

\* C38: for every user path that resolves, _level_path_to_abs_fs_path_str
\* returns the database root joined with the fs_ids the path resolves to,
\* the string _get_absolute_fs_path_str gives for _get_fs_path of the path;
\* for every path that does not resolve it returns NullFSPath.
C38_AbsPathOfFsIds ==
    \A level_path \in ItemPaths :
        LET fs_path == _get_fs_path(fs, pd_df_fs_format, level_path)
            returned == _level_path_to_abs_fs_path_str(fs, pd_df_fs_format, level_path)
        IN  /\ fs_path.res = "ok" =>
                   returned = [res |-> "ok", path |-> _get_absolute_fs_path_str(fs_path.path)]
            /\ fs_path.res = "Null" => returned.res = "Null"

(***************************************************************************)
(* FileSystemIOHandler.create_whole_path, one loop iteration per step.     *)
(* Here fs is the file system the path strings are resolved in: the key    *)
(* <<>> is the working directory, the key <<os_sep>> the root directory,   *)
(* and last is the call in progress: its argument, folder_path_aux,        *)
(* sep_pos, the file system before the call and, once it has ended, how it *)
(* ended.                                                                  *)
(***************************************************************************)
os_sep == "/"

\* str.find of a single character: the 0-based index of its first
\* occurrence, -1 when there is none
str_find(s, sub) ==
    LET found == {i \in 1..Len(s) : CharAt(s, i) = sub}
    IN  IF found = {} THEN -1
        ELSE (CHOOSE i \in found : \A j \in found : i <= j) - 1

\* the names between the separators of a path string
RECURSIVE path_names(_)
path_names(s) ==
    LET cut(k) ==
            IF k = -1 THEN <<s>>
            ELSE IF k = 0 THEN path_names(SubSeq(s, 2, Len(s)))
            ELSE <<SubSeq(s, 1, k)>> \o path_names(SubSeq(s, k + 2, Len(s)))
    IN  IF s = "" THEN <<>> ELSE cut(str_find(s, os_sep))

\* the entry a non-empty path string names: below the root directory when
\* it starts with a separator, below the working directory otherwise
fs_key(s) ==
    IF CharAt(s, 1) = os_sep THEN <<os_sep>> \o path_names(s) ELSE path_names(s)

\* create_folder on a path string; the empty string names no entry, so
\* path.exists("") is False and os.mkdir("") raises FileNotFoundError
create_folder_str(f, folder_path) ==
    IF folder_path = "" THEN [res |-> "OSError", fs |-> f]
    ELSE create_folder(f, fs_key(folder_path))

NoCall ==
    [op |-> "none", pc |-> "idle", folder_path |-> "", folder_path_aux |-> "",
     sep_pos |-> -1, res |-> "ok", before |-> NoFs]

\* one iteration of the while loop of create_whole_path
create_whole_path_step(f, call) ==
    LET create(sep_pos) ==
            LET made(created) ==
                    IF created.res = "ok"
                    THEN [fs |-> created.fs, call |-> [call EXCEPT !.sep_pos = sep_pos]]
                    ELSE [fs |-> created.fs,
                          call |-> [call EXCEPT !.sep_pos = sep_pos, !.pc = "returned",
                                                !.res = created.res]]
            IN  made(create_folder_str(f, SubSeq(call.folder_path_aux, 1, sep_pos)))
        next(sep_pos_next) ==
            IF sep_pos_next = -1
            THEN [fs |-> f, call |-> [call EXCEPT !.pc = "returned", !.res = "ok"]]
            ELSE create(sep_pos_next + call.sep_pos + 1)
    IN  next(str_find(SubSeq(call.folder_path_aux, call.sep_pos + 2,
                             Len(call.folder_path_aux)), os_sep))

\* the folder a detector's debug data goes to, relative and absolute, with
\* a trailing and a doubled separator
FolderPaths == {"a", "a/b", "b/a/k", "a/", "a//b", "/a", "/b/a"}

\* the working directory and the root directory, with nothing in them, with
\* a folder a that holds a folder and a file, or with a file b
WorkingTrees ==
    LET bare == WithEntry(WithEntry(NoFs, <<>>, Dir), <<os_sep>>, Dir)
        with_folder == WithEntry(WithEntry(WithEntry(bare, <<"a">>, Dir),
                                           <<"a", "k">>, BytesFile("d1")),
                                 <<"a", "c">>, Dir)
    IN  {bare, with_folder, WithEntry(with_folder, <<"b">>, BytesFile("d1"))}

InitWholePath ==
    /\ fs \in WorkingTrees
    /\ last = NoCall
    /\ nops = 0
    /\ pd_df_fs_format = ".csv"
    /\ det = NoDet

CreateWholePath(folder_path) ==
    /\ last.pc = "idle"
    /\ nops < MaxOps
    /\ last' = [op |-> "create_whole_path", pc |-> "loop", folder_path |-> folder_path,
                folder_path_aux |-> folder_path \o os_sep, sep_pos |-> -1, res |-> "ok",
                before |-> fs]
    /\ nops' = nops + 1
    /\ UNCHANGED <<fs, pd_df_fs_format, det>>

WholePathLoop ==
    /\ last.pc = "loop"
    /\ LET r == create_whole_path_step(fs, last)
       IN  fs' = r.fs /\ last' = r.call
    /\ UNCHANGED <<pd_df_fs_format, nops, det>>

WholePathReturn ==
    /\ last.pc = "returned"
    /\ last' = NoCall
    /\ UNCHANGED <<fs, pd_df_fs_format, nops, det>>

NextWholePath ==
    \/ \E folder_path \in FolderPaths : CreateWholePath(folder_path)
    \/ WholePathLoop
    \/ WholePathReturn

SpecWholePath == InitWholePath /\ [][NextWholePath]_vars

\* the loop runs as long as it can
SpecWholePathFair == SpecWholePath /\ WF_vars(WholePathLoop)

\* every call of create_whole_path ends, by returning or by raising
create_whole_path_terminates == (last.pc = "loop") ~> (last.pc = "returned")

\* every iteration moves sep_pos forward, within folder_path_aux
sep_pos_advances ==
    [][(last.pc = "loop" /\ last'.op = "create_whole_path" /\ last'.sep_pos # last.sep_pos)
       => (last.sep_pos < last'.sep_pos /\ last'.sep_pos < Len(last.folder_path_aux))]_vars

\* the folders along path string s: the entries of its leading names
directory_prefixes(s) ==
    {SubSeq(fs_key(s), 1, n) : n \in 1..Len(fs_key(s))}

\* C39: create_whole_path(p) ends for every path string p, and for a
\* relative and for an absolute p, with no file on the way, it returns with
\* every folder along p existing and with every entry that existed before
\* the call as it was.
C39_CreateWholePathCreates ==
    [][(/\ last.pc = "loop"
        /\ last'.pc = "returned"
        /\ \A k \in directory_prefixes(last.folder_path) :
               k \in DOMAIN last.before => last.before[k].kind = "dir")
       => /\ last'.res = "ok"
          /\ last'.sep_pos < Len(last.folder_path_aux)
          /\ \A k \in directory_prefixes(last.folder_path) :
                 k \in DOMAIN fs' /\ fs'[k].kind = "dir"
          /\ \A q \in DOMAIN last.before :
                 q \in DOMAIN fs' /\ fs'[q] = last.before[q]]_vars

====
